---- MODULE Spec2Model ----
(***************************************************************************)
(* Model of wayfire's GPU rendering layer (src/core/opengl.cpp):           *)
(*   - wf::framebuffer_base_t : allocate / release / reset / move          *)
(*   - wf::framebuffer_t      : the box conversions                        *)
(*   - OpenGL::compile_shader / compile_program                            *)
(*   - OpenGL::program_t      : compile / set_simple / free_resources /    *)
(*                              use / attrib_pointer / attrib_divisor /    *)
(*                              uniform* / set_active_texture / deactivate *)
(*   - OpenGL::init / fini / render_begin / render_end /                   *)
(*     render_transformed_texture / render_rectangle                       *)
(* The GL driver is modelled by the object tables and bindings the calls   *)
(* of the code read and write.  Answers that only the driver decides       *)
(* (which unused name glGen* hands out, the framebuffer status, whether a  *)
(* shader compiles, whether a program links) are inputs of the actions.    *)
(***************************************************************************)
EXTENDS Integers, Sequences, FiniteSets, TLC

(***************************************************************************)
(* Bounds                                                                  *)
(***************************************************************************)
MaxWidth == 2
MaxHeight == 2
MaxName == 2
MaxProg == 4
MaxLeaked == 2

(***************************************************************************)
(* Program constants                                                       *)
(***************************************************************************)
\* The "unset" value of framebuffer_base_t::fb and ::tex.  The source writes
\* it -1 and stores it in a GLuint, i.e. 2^32 - 1; it is only ever compared
\* for equality and no GL name of the model reaches it, so it is kept as -1.
Unset == -1
\* compile_shader's "return -1" through its GLuint return type, kept as -1
\* for the same reason
ShaderFail == -1

TEXTURE_TYPE_RGBA == 0
TEXTURE_TYPE_RGBX == 1
TEXTURE_TYPE_EXTERNAL == 2
TEXTURE_TYPE_ALL == 3

\* OpenGL::program, OpenGL::color_program
Programs == {"program", "color_program"}
\* The program_t operations are exercised on one instance: two instances
\* share nothing but the GL name space and the current program.
Exercised == {"program"}
Types == 0..(TEXTURE_TYPE_ALL - 1)
ProgNames == 1..MaxProg

Targets == {"A", "B"}
Widths == 1..MaxWidth
Heights == 1..MaxHeight
Names == 1..MaxName

VARIABLES
    targets,        \* target -> [fb, tex, viewport_width, viewport_height]
    glFramebuffers, \* live framebuffer object names
    glTextures,     \* live texture name -> <<width, height>> of its storage
    boundFb,        \* GL_FRAMEBUFFER binding
    boundTex,       \* GL_TEXTURE_2D binding
    boundTexExternal, \* GL_TEXTURE_EXTERNAL_OES binding
    glPrograms,     \* live program name -> TRUE iff it linked successfully
    glProgram,      \* the current program (glUseProgram)
    id,             \* multiplexer -> (texture type -> program), impl::id
    active_program_idx, \* multiplexer -> texture type, impl
    attribs,        \* multiplexer -> (type -> (attrib name -> location))
    uniforms,       \* multiplexer -> (type -> (uniform name -> location))
    active_attrs,   \* multiplexer -> set of locations, impl
    active_attrs_divisors, \* multiplexer -> set of locations, impl
    glEnabledAttribs, \* vertex attribute arrays that are enabled
    glDivisors,     \* vertex attribute location -> divisor
    glAttribPointers, \* vertex attribute location -> the array it points to
    glBlend,        \* [enabled, sfactor, dfactor]
    glScissorTest,  \* GL_SCISSOR_TEST is enabled
    egl_is_current, \* the EGL context of the core is current
    rendering,      \* a wlr_renderer session is open
    framebuffer,    \* the fields of a wf::framebuffer_t
    glErrors,       \* the GL error flags that are set (glGetError)
    log,            \* the lines LOGE has written
    pc,             \* the statement the running pipeline function is at
    frame,          \* the arguments of the running pipeline function
    trace,          \* the calls it has made so far
    ev              \* record of the call that produced the current state

tvars == <<targets, glFramebuffers, glTextures, boundFb, boundTex>>
pvars == <<glPrograms, glProgram, id, active_program_idx>>
\* program_t::impl beyond id and active_program_idx
mvars == <<attribs, uniforms, active_attrs, active_attrs_divisors>>
\* GL and renderer state the drawing functions write
gvars == <<glEnabledAttribs, glDivisors, glAttribPointers, glBlend,
           glScissorTest, boundTexExternal, egl_is_current, rendering>>
\* the running pipeline function
cvars == <<pc, frame, trace>>
\* the GL error flags and the log, which gl_call() alone reads and writes
evars == <<glErrors, log>>
\* what the operations of framebuffer_base_t, compile(), set_simple(),
\* free_resources() and use() never touch
rvars == <<mvars, gvars, cvars, framebuffer, evars>>
vars == <<targets, glFramebuffers, glTextures, boundFb, boundTex,
          glPrograms, glProgram, id, active_program_idx,
          attribs, uniforms, active_attrs, active_attrs_divisors,
          glEnabledAttribs, glDivisors, glAttribPointers, glBlend,
          glScissorTest, boundTexExternal, egl_is_current, rendering,
          framebuffer, glErrors, log,
          pc, frame, trace, ev>>

\* The record of a call: what was called with which arguments, what it
\* returned or raised, and the GL calls of interest it issued.
\* result_program[c] and compiled[c] describe the compile_program() call made
\* for type c; the shader handles are recorded for set_simple's single
\* compile_program() call only.  box and result are the argument and the
\* value of a box conversion, returned whether it returned a value.  name
\* and loc are the attribute of an attribute call and the location it was
\* resolved to; disabled and reset are the locations deactivate() passed to
\* glDisableVertexAttribArray and to glVertexAttribDivisor(loc, 0); drawn is
\* the glDrawArrays call of a drawing function with the GL state it drew
\* with.  names and locs are the names a uniform or attribute setter was
\* called with and the locations it passed to the GL, queries its
\* glGetUniformLocation / glGetAttribLocation calls, each <<kind, program,
\* name>>.  matrix / den is the matrix a matrix function returned for the
\* wl_output_transform transform or for the framebuffer, texture the
\* texture_t constructed from the wlr texture attributes attribs.  pending
\* are the GL error flags set when gl_call() was entered for the GL function
\* name, logged the lines it wrote.
NoEv == [op |-> "init", t |-> "", src |-> "", w |-> 0, h |-> 0,
         ret |-> FALSE, failed |-> FALSE,
         created_fb |-> FALSE, created_tex |-> FALSE, realloc |-> FALSE,
         deleted |-> <<>>,
         m |-> "", type |-> 0, raised |-> FALSE, used |-> 0,
         vertex_shader |-> 0, fragment_shader |-> 0,
         result_program |-> [c \in Types |-> 0],
         compiled |-> [c \in Types |-> TRUE],
         box |-> [x |-> 0, y |-> 0, width |-> 0, height |-> 0],
         result |-> [x |-> 0, y |-> 0, width |-> 0, height |-> 0],
         returned |-> FALSE,
         name |-> "", loc |-> 0, disabled |-> {}, reset |-> {},
         drawn |-> <<>>,
         names |-> <<>>, locs |-> <<>>, queries |-> <<>>,
         transform |-> 0, matrix |-> <<>>, den |-> 1,
         attribs |-> <<>>, texture |-> <<>>,
         pending |-> {}, logged |-> <<>>]

\* f with f[k] = v, k added to the domain when it is not there
Put(f, k, v) == [x \in (DOMAIN f) \cup {k} |-> IF x = k THEN v ELSE f[x]]
\* f without the keys in ks
Drop(f, ks) == [x \in (DOMAIN f) \ ks |-> f[x]]

(***************************************************************************)
(* framebuffer_base_t                                                      *)
(***************************************************************************)
\* GLuint tex = -1, fb = -1; int32_t viewport_width = 0, viewport_height = 0;
framebuffer_base_t ==
    [fb |-> Unset, tex |-> Unset, viewport_width |-> 0, viewport_height |-> 0]

\* reset that leaves the viewport size
reset_keeps_size(self) == [self EXCEPT !.fb = Unset, !.tex = Unset]

\* reset(): fb = -1; tex = -1; viewport_width = viewport_height = 0;
reset(self) == [self EXCEPT !.fb = Unset, !.tex = Unset, !.viewport_width = 0, !.viewport_height = 0]

\* allocate(): first_allocate, set by "if (fb == (uint32_t)-1)" and
\* "if (tex == (uint32_t)-1)"
first_allocate(self) == self.fb = Unset \/ self.tex = Unset

\* is_resize with the height comparison left out
is_resize_noheight(fb, first, width, height, vw, vh) ==
    fb # 0 /\ (first \/ width # vw)

\* allocate(): is_resize, "if (fb != 0) { if (first_allocate || width !=
\* viewport_width || height != viewport_height) is_resize = true; ... }"
is_resize(fb, first, width, height, vw, vh) ==
    fb # 0 /\ (first \/ width # vw \/ height # vh)

\* allocate(): the framebuffer status is queried "if (is_resize ||
\* first_allocate)"
checks_status(resize, first) == resize \/ first

\* allocate(): the value returned: false when the status is not
\* GL_FRAMEBUFFER_COMPLETE, otherwise "is_resize || first_allocate"
allocate_result(resize, first, complete) ==
    IF checks_status(resize, first) /\ ~complete
    THEN FALSE
    ELSE resize \/ first

\* bool framebuffer_base_t::allocate(int width, int height)
\*   fbName, texName : the names glGenFramebuffers / glGenTextures hand out
\*   complete        : glCheckFramebufferStatus() == GL_FRAMEBUFFER_COMPLETE
allocate(t, width, height, fbName, texName, complete) ==
    LET self    == targets[t]
        first   == first_allocate(self)
        genFb   == self.fb = Unset
        genTex  == self.tex = Unset
        fb1     == IF genFb THEN fbName ELSE self.fb
        tex1    == IF genTex THEN texName ELSE self.tex
        resize  == is_resize(fb1, first, width, height,
                             self.viewport_width, self.viewport_height)
        failed  == checks_status(resize, first) /\ ~complete
        \* glGenTextures + glBindTexture create the texture, without storage
        texs1   == IF genTex THEN Put(glTextures, tex1, <<0, 0>>)
                   ELSE glTextures
        \* glTexImage2D(..., width, height, ..., 0): new storage
        texs2   == IF resize /\ tex1 \in DOMAIN texs1
                   THEN Put(texs1, tex1, <<width, height>>)
                   ELSE texs1
        \* bindings left by lines 272, 286, 294, 295
        bTex1   == IF genTex \/ resize \/ first THEN tex1 ELSE boundTex
        bFb1    == IF first THEN fb1 ELSE boundFb
    IN  /\ glFramebuffers' = IF genFb THEN glFramebuffers \cup {fb1}
                             ELSE glFramebuffers
        /\ glTextures' = texs2
        /\ IF failed
           THEN /\ targets' = [targets EXCEPT ![t] =
                                  [self EXCEPT !.fb = fb1, !.tex = tex1]]
                /\ boundTex' = bTex1
                /\ boundFb' = bFb1
           ELSE /\ targets' = [targets EXCEPT ![t] =
                                  [fb |-> fb1, tex |-> tex1,
                                   viewport_width |-> width,
                                   viewport_height |-> height]]
                /\ boundTex' = 0
                /\ boundFb' = 0
        /\ UNCHANGED pvars
        /\ ev' = [NoEv EXCEPT !.op = "allocate", !.t = t,
                              !.w = width, !.h = height,
                              !.ret = allocate_result(resize, first, complete),
                              !.failed = failed,
                              !.created_fb = genFb, !.created_tex = genTex,
                              !.realloc = resize]

\* allocate() on any target, with any names the GL may hand out and either
\* framebuffer status, for the sizes <<width, height>> of a set
AllocateSizes(sizes) ==
    \E t \in Targets, size \in sizes :
        LET self == targets[t]
            width == size[1]
            height == size[2]
        IN
        \E fbName \in (IF self.fb = Unset THEN Names \ glFramebuffers
                       ELSE {self.fb}),
           texName \in (IF self.tex = Unset THEN Names \ DOMAIN glTextures
                        ELSE {self.tex}) :
            \E complete \in (IF checks_status(
                                  is_resize(fbName, first_allocate(self),
                                            width, height,
                                            self.viewport_width,
                                            self.viewport_height),
                                  first_allocate(self))
                             THEN BOOLEAN ELSE {TRUE}) :
                /\ allocate(t, width, height, fbName, texName, complete)
                /\ UNCHANGED rvars

Allocate == AllocateSizes(Widths \X Heights)

\* allocate(n, n)
AllocateSquare == AllocateSizes({<<n, n>> : n \in Widths})

\* deletes_fb without the test for the default framebuffer
deletes_fb_default(self) == self.fb # Unset

\* release(): "if (fb != uint32_t(-1) && fb != 0)" glDeleteFramebuffers
deletes_fb(self) == self.fb # Unset /\ self.fb # 0

\* release(): "if (tex != uint32_t(-1) && (fb != 0 || tex != 0))"
\* glDeleteTextures
deletes_tex(self) == self.tex # Unset /\ (self.fb # 0 \/ self.tex # 0)

\* the glDelete* calls release() issues, in order
release_calls(self) ==
    (IF deletes_fb(self) THEN << <<"fb", self.fb>> >> ELSE <<>>)
    \o (IF deletes_tex(self) THEN << <<"tex", self.tex>> >> ELSE <<>>)

\* GL state after release()'s glDelete* calls: a deleted object that is
\* bound leaves its binding at 0
gl_after_release(self) ==
    [fbs  |-> IF deletes_fb(self) THEN glFramebuffers \ {self.fb}
              ELSE glFramebuffers,
     texs |-> IF deletes_tex(self) THEN Drop(glTextures, {self.tex})
              ELSE glTextures,
     bFb  |-> IF deletes_fb(self) /\ boundFb = self.fb THEN 0 ELSE boundFb,
     bTex |-> IF deletes_tex(self) /\ boundTex = self.tex THEN 0
              ELSE boundTex]

\* void framebuffer_base_t::release()
release(t) ==
    LET self == targets[t]
        gl   == gl_after_release(self)
    IN  /\ targets' = [targets EXCEPT ![t] = reset(self)]
        /\ glFramebuffers' = gl.fbs
        /\ glTextures' = gl.texs
        /\ boundFb' = gl.bFb
        /\ boundTex' = gl.bTex
        /\ UNCHANGED pvars
        /\ ev' = [NoEv EXCEPT !.op = "release", !.t = t,
                              !.deleted = release_calls(self)]

Release == \E t \in Targets : release(t) /\ UNCHANGED rvars

\* copy_state(other): the fields this takes from other
copy_state_self(other) ==
    [fb |-> other.fb, tex |-> other.tex,
     viewport_width |-> other.viewport_width,
     viewport_height |-> other.viewport_height]

\* copy_state that does not reset other
copy_state_other_kept(other) == other

\* copy_state(other): what it leaves in other, "other.reset()"
copy_state_other(other) == reset(other)

\* operator=(framebuffer_base_t&& other): "if (this == &other) return *this"
is_self_move(t, o) == t = o

\* framebuffer_base_t& operator = (framebuffer_base_t&& other)
move_assign(t, o) ==
    LET self  == targets[t]
        other == targets[o]
        gl    == gl_after_release(self)
    IN  /\ UNCHANGED pvars
        /\ IF is_self_move(t, o)
           THEN /\ UNCHANGED tvars
                /\ ev' = [NoEv EXCEPT !.op = "move_assign",
                                      !.t = t, !.src = o]
           ELSE /\ targets' = [targets EXCEPT
                                  ![t] = copy_state_self(other),
                                  ![o] = copy_state_other(other)]
                /\ glFramebuffers' = gl.fbs
                /\ glTextures' = gl.texs
                /\ boundFb' = gl.bFb
                /\ boundTex' = gl.bTex
                /\ ev' = [NoEv EXCEPT !.op = "move_assign",
                                      !.t = t, !.src = o,
                                      !.deleted = release_calls(self)]

MoveAssign ==
    \E t \in Targets, o \in Targets : move_assign(t, o) /\ UNCHANGED rvars

\* framebuffer_base_t(framebuffer_base_t&& other): "copy_state(std::move(
\* other))".  The object constructed is a target that holds nothing yet.
move_construct(t, o) ==
    /\ t # o
    /\ targets[t] = framebuffer_base_t
    /\ targets' = [targets EXCEPT ![t] = copy_state_self(targets[o]),
                                  ![o] = copy_state_other(targets[o])]
    /\ UNCHANGED <<glFramebuffers, glTextures, boundFb, boundTex>>
    /\ UNCHANGED pvars
    /\ ev' = [NoEv EXCEPT !.op = "move_construct", !.t = t, !.src = o]

MoveConstruct ==
    \E t \in Targets, o \in Targets : move_construct(t, o) /\ UNCHANGED rvars

\* the GL objects that no target holds any more
Leaked(ts) ==
    ({<<"fb", n>> : n \in glFramebuffers}
        \ {<<"fb", ts[t].fb>> : t \in Targets})
    \cup ({<<"tex", n>> : n \in DOMAIN glTextures}
        \ {<<"tex", ts[t].tex>> : t \in Targets})

\* void framebuffer_base_t::reset(), called by the owner of the target:
\* nothing is deleted, so what the target held stays alive.  The owner
\* leaves at most MaxLeaked objects behind.
Reset ==
    \E t \in Targets :
        /\ Cardinality(Leaked([targets EXCEPT ![t] = reset(targets[t])]))
              <= MaxLeaked
        /\ targets' = [targets EXCEPT ![t] = reset(targets[t])]
        /\ UNCHANGED <<glFramebuffers, glTextures, boundFb, boundTex>>
        /\ UNCHANGED pvars
        /\ ev' = [NoEv EXCEPT !.op = "reset", !.t = t]
        /\ UNCHANGED rvars

\* The owner of a default workspace stream points a freshly constructed
\* target at the implicit default framebuffer: it writes fb = 0 and either
\* writes tex = 0 too or leaves tex as constructed (both fields are public).
default_stream(t, tex) ==
    /\ targets[t] = framebuffer_base_t
    /\ targets' = [targets EXCEPT ![t] = [@ EXCEPT !.fb = 0, !.tex = tex]]
    /\ ev' = [NoEv EXCEPT !.op = "default", !.t = t]
    /\ UNCHANGED <<glFramebuffers, glTextures, boundFb, boundTex>>
    /\ UNCHANGED pvars

DefaultStream ==
    \E t \in Targets, tex \in {0, Unset} :
        default_stream(t, tex) /\ UNCHANGED rvars

(***************************************************************************)
(* compile_shader / compile_program                                        *)
(***************************************************************************)
GL_VERTEX_SHADER == 1
GL_FRAGMENT_SHADER == 2

\* glCreateShader(type): a non-zero shader name.  Shader objects are not
\* tracked beyond the call that makes them, so the name is taken to be the
\* stage's number.
glCreateShader(type) == type

\* GLuint compile_shader(source, type): "if (s == GL_FALSE) return -1;
\* return shader;"   compiles: GL_COMPILE_STATUS of the source
compile_shader(type, compiles) ==
    IF compiles THEN glCreateShader(type) ELSE ShaderFail

\* compile_program that answers 0 when a shader did not compile
compile_program_checked(result_program, vertex_shader, fragment_shader) ==
    IF vertex_shader = ShaderFail \/ fragment_shader = ShaderFail
    THEN 0
    ELSE result_program

\* compile_program(): "return result_program;"
compile_program_result(result_program, vertex_shader, fragment_shader) ==
    result_program

\* GLuint compile_program(vertex_source, frag_source)
\*   name   : the name glCreateProgram hands out
\*   vs, fs : whether the vertex / fragment source compiles
\*   links  : GL_LINK_STATUS after glLinkProgram; glAttachShader rejects
\*            the value -1, so a program with a failed shader cannot link
compile_program(name, vs, fs, links) ==
    LET vertex_shader   == compile_shader(GL_VERTEX_SHADER, vs)
        fragment_shader == compile_shader(GL_FRAGMENT_SHADER, fs)
    IN  [vertex_shader   |-> vertex_shader,
         fragment_shader |-> fragment_shader,
         created         |-> name,
         linked          |-> vs /\ fs /\ links,
         result          |-> compile_program_result(name, vertex_shader,
                                                    fragment_shader)]

\* names glCreateProgram may hand out when the live programs are programs:
\* a deleted program that is still current keeps its name until another
\* program is made current
FreeProgNames(programs) == ProgNames \ ((DOMAIN programs) \cup {glProgram})

\* glCreateProgram(): a non-zero name that is not in use; the driver is taken
\* to hand out the lowest one.  k = 1 for the next call, 2 for the one after
\* it, ...
RECURSIVE glCreateProgram(_, _)
glCreateProgram(free, k) ==
    LET lowest == CHOOSE n \in free : \A o \in free : n <= o
    IN  IF k = 1 THEN lowest ELSE glCreateProgram(free \ {lowest}, k - 1)

\* the link results the driver can give for shaders that compile as vs, fs
LinkResults(vs, fs) == IF vs /\ fs THEN BOOLEAN ELSE {FALSE}

(***************************************************************************)
(* program_t                                                               *)
(***************************************************************************)
\* the programs a multiplexer holds: its slots that are not 0
Held(ids) == {ids[c] : c \in Types} \ {0}

\* free_resources(): the glDeleteProgram calls, "for (i = 0; i <
\* TEXTURE_TYPE_ALL; i++) if (id[i]) glDeleteProgram(id[i])"
RECURSIVE free_calls(_, _)
free_calls(ids, i) ==
    IF i >= TEXTURE_TYPE_ALL THEN <<>>
    ELSE (IF ids[i] # 0 THEN << <<"program", ids[i]>> >> ELSE <<>>)
         \o free_calls(ids, i + 1)

\* free_resources() that leaves the slots as they are
free_ids_kept(ids) == ids

\* free_resources(): "id[i] = 0" for every slot
free_ids(ids) == [c \in Types |-> 0]

\* GL programs left after the glDeleteProgram calls of free_resources()
free_programs(ids, programs) ==
    Drop(programs, {ids[c] : c \in Types} \ {0})

\* void program_t::free_resources()
free_resources(m) ==
    /\ glPrograms' = free_programs(id[m], glPrograms)
    /\ id' = [id EXCEPT ![m] = free_ids(id[m])]
    /\ UNCHANGED <<glProgram, active_program_idx>>
    /\ UNCHANGED tvars
    /\ ev' = [NoEv EXCEPT !.op = "free_resources", !.m = m,
                          !.deleted = free_calls(id[m], 0)]

FreeResources == \E m \in Exercised : free_resources(m) /\ UNCHANGED rvars

\* set_simple() without the call of free_resources()
set_simple_ids_kept(ids, program_id, type) ==
    [ids EXCEPT ![type] = program_id]

\* set_simple(): "free_resources(); ... id[type] = program_id;"
set_simple_ids(ids, program_id, type) ==
    [free_ids(ids) EXCEPT ![type] = program_id]

\* "color_program.set_simple(compile_program(default_vertex_shader_source,
\* color_rect_fragment_source));" as in OpenGL::init(), for either
\* multiplexer and any type: the argument is evaluated first, so the new
\* program is created while the previously held programs are still alive.
\*   vs, fs, links : as for compile_program
set_simple(m, type, vs, fs, links) ==
    LET free == FreeProgNames(glPrograms)
        p == compile_program(glCreateProgram(free, 1), vs, fs, links)
        programs1 == Put(glPrograms, p.created, p.linked)
    IN  /\ free # {}
        /\ glPrograms' = free_programs(id[m], programs1)
        /\ id' = [id EXCEPT ![m] = set_simple_ids(id[m], p.result, type)]
        /\ UNCHANGED <<glProgram, active_program_idx>>
        /\ UNCHANGED tvars
        /\ ev' = [NoEv EXCEPT
                    !.op = "set_simple", !.m = m, !.type = type,
                    !.deleted = free_calls(id[m], 0),
                    !.vertex_shader = p.vertex_shader,
                    !.fragment_shader = p.fragment_shader,
                    !.result_program[type] = p.result,
                    !.compiled[type] = vs /\ fs]

SetSimple ==
    \E m \in Exercised, type \in Types, vs \in BOOLEAN, fs \in BOOLEAN :
        \E links \in LinkResults(vs, fs) :
            set_simple(m, type, vs, fs, links) /\ UNCHANGED rvars

\* void program_t::compile(vertex_source, fragment_source)
\*   vs       : whether vertex_source compiles
\*   fs[c]    : whether the fragment source specialised for c compiles
\*   links[c] : GL_LINK_STATUS of the program of c
compile(m, vs, fs, links) ==
    LET programs1 == free_programs(id[m], glPrograms)
        \* "for (const auto& program_type : builtins)": a std::map, visited
        \* in the order RGBA, RGBX, EXTERNAL
        names == [c \in Types |->
                     glCreateProgram(FreeProgNames(programs1), c + 1)]
        p == [c \in Types |-> compile_program(names[c], vs, fs[c], links[c])]
    IN  /\ Cardinality(FreeProgNames(programs1)) >= TEXTURE_TYPE_ALL
        /\ glPrograms' =
              [n \in (DOMAIN programs1) \cup {names[c] : c \in Types} |->
                  IF \E c \in Types : names[c] = n
                  THEN p[CHOOSE c \in Types : names[c] = n].linked
                  ELSE programs1[n]]
        /\ id' = [id EXCEPT ![m] = [c \in Types |-> p[c].result]]
        /\ UNCHANGED <<glProgram, active_program_idx>>
        /\ UNCHANGED tvars
        /\ ev' = [NoEv EXCEPT
                    !.op = "compile", !.m = m,
                    !.deleted = free_calls(id[m], 0),
                    !.result_program = [c \in Types |-> p[c].result],
                    !.compiled = [c \in Types |-> vs /\ fs[c]]]

Compile ==
    \E m \in Exercised, vs \in BOOLEAN, fs \in [Types -> BOOLEAN] :
        \E links \in [Types -> BOOLEAN] :
            /\ \A c \in Types : links[c] \in LinkResults(vs, fs[c])
            /\ compile(m, vs, fs, links)
            /\ UNCHANGED rvars

\* use() that never raises
no_program_never(program_id) == FALSE

\* use(): "if (priv->id[type] == 0) throw std::runtime_error(...)"
no_program(program_id) == program_id = 0

\* glUseProgram(program): the current program afterwards.  A program that
\* is not a successfully linked program object is rejected with a GL error
\* and the current program stays.
glUseProgram(program) ==
    IF program = 0 THEN 0
    ELSE IF program \in DOMAIN glPrograms /\ glPrograms[program]
         THEN program
         ELSE glProgram

\* void program_t::use(wf::texture_type_t type)
use(m, type) ==
    IF no_program(id[m][type])
    THEN /\ UNCHANGED pvars
         /\ UNCHANGED tvars
         /\ ev' = [NoEv EXCEPT !.op = "use", !.m = m, !.type = type,
                               !.raised = TRUE]
    ELSE /\ glProgram' = glUseProgram(id[m][type])
         /\ active_program_idx' = [active_program_idx EXCEPT ![m] = type]
         /\ UNCHANGED <<glPrograms, id>>
         /\ UNCHANGED tvars
         /\ ev' = [NoEv EXCEPT !.op = "use", !.m = m, !.type = type,
                               !.used = id[m][type]]

Use == \E m \in Exercised, type \in Types : use(m, type) /\ UNCHANGED rvars

(***************************************************************************)
(* framebuffer_t: the box conversions                                      *)
(***************************************************************************)
\* bounds of the boxes and scales the conversions are applied to
MaxBox == 3
MaxScale == 4

\* "float scale" is kept as a number of halves: scale = k / ScaleDen.  The
\* products box.x * scale of the model's boxes are multiples of 1/2 far below
\* 2^24, so the float arithmetic of the source is exact on them.
ScaleDen == 2

\* enum wl_output_transform
WL_OUTPUT_TRANSFORM_NORMAL == 0
WL_OUTPUT_TRANSFORM_90 == 1
WL_OUTPUT_TRANSFORM_180 == 2
WL_OUTPUT_TRANSFORM_270 == 3
WL_OUTPUT_TRANSFORM_FLIPPED == 4
WL_OUTPUT_TRANSFORM_FLIPPED_90 == 5
WL_OUTPUT_TRANSFORM_FLIPPED_180 == 6
WL_OUTPUT_TRANSFORM_FLIPPED_270 == 7
Transforms == WL_OUTPUT_TRANSFORM_NORMAL..WL_OUTPUT_TRANSFORM_FLIPPED_270

\* wlr_box / wf::geometry_t
Box(x, y, width, height) ==
    [x |-> x, y |-> y, width |-> width, height |-> height]

\* glm::mat4 as its rows: m[i][j] is the coefficient of the j-th coordinate
\* of a column vector in the i-th coordinate of the product.  glm::mat4(d)
\* is d times the identity.
mat4(d) == [i \in 1..4 |-> [j \in 1..4 |-> IF i = j THEN d ELSE 0]]

\* glm: a * b
MatMul(a, b) ==
    [i \in 1..4 |-> [j \in 1..4 |->
        a[i][1] * b[1][j] + a[i][2] * b[2][j]
            + a[i][3] * b[3][j] + a[i][4] * b[4][j]]]

\* glm: m * v for a vec4
MatVec(m, v) ==
    [i \in 1..4 |->
        m[i][1] * v[1] + m[i][2] * v[2] + m[i][3] * v[3] + m[i][4] * v[4]]

\* no pipeline function is running
NoFrame ==
    [fn |-> "none", via |-> "none", m |-> "",
     tex |-> [type |-> 0, tex_id |-> 0],
     geometry |-> Box(0, 0, 0, 0), origin |-> <<0, 0>>, bits |-> 0,
     transform |-> "", vertexData |-> <<>>, coordData |-> <<>>,
     texg |-> [x1 |-> 0, y1 |-> 0, x2 |-> 0, y2 |-> 0],
     box |-> Box(0, 0, 0, 0)]

\* the wlr_box arguments of the conversions
Boxes == [x : -1..1, y : 0..1, width : 0..MaxBox, height : 0..MaxBox]
\* the values of framebuffer_t::scale, in halves
Scales == 1..MaxScale

\* wf::framebuffer_t as constructed: geometry = {0, 0, 0, 0}, wl_transform =
\* WL_OUTPUT_TRANSFORM_NORMAL, scale = 1.0, has_nonstandard_transform =
\* false, transform = glm::mat4(1.0), viewport_width = viewport_height = 0
framebuffer_t ==
    [geometry |-> Box(0, 0, 0, 0),
     wl_transform |-> WL_OUTPUT_TRANSFORM_NORMAL,
     scale |-> ScaleDen,
     has_nonstandard_transform |-> FALSE,
     transform |-> mat4(1),
     viewport_width |-> 0, viewport_height |-> 0]

\* the framebuffers the conversions are applied to: the public fields as the
\* owning output has set them
Framebuffers ==
    [geometry : {Box(0, 0, w, MaxBox) : w \in (MaxBox - 1)..MaxBox},
     wl_transform : Transforms,
     scale : Scales,
     has_nonstandard_transform : BOOLEAN,
     transform : {mat4(1)},
     viewport_width : (MaxBox + 1)..(MaxBox + 2),
     viewport_height : {MaxBox + 1}]

\* std::floor(n / d) and std::ceil(n / d) for d > 0, converted to int
std_floor(n, d) == n \div d

\* std_ceil that rounds down
std_ceil_down(n, d) == n \div d

std_ceil(n, d) == -((-n) \div d)

\* wlr_box framebuffer_t::damage_box_from_geometry_box(wlr_box box) const
damage_box_from_geometry_box(self, box) ==
    Box(std_floor(box.x * self.scale, ScaleDen),
        std_floor(box.y * self.scale, ScaleDen),
        std_ceil(box.width * self.scale, ScaleDen),
        std_ceil(box.height * self.scale, ScaleDen))

\* wlroots, wlr_output_transform_invert(tr): "if ((tr & 90) && !(tr &
\* FLIPPED)) tr ^= 180"
wlr_output_transform_invert(tr) ==
    IF tr = WL_OUTPUT_TRANSFORM_90 THEN WL_OUTPUT_TRANSFORM_270
    ELSE IF tr = WL_OUTPUT_TRANSFORM_270 THEN WL_OUTPUT_TRANSFORM_90
    ELSE tr

\* wlroots, wlr_box_transform(dest, box, transform, width, height)
wlr_box_transform(box, transform, width, height) ==
    LET w == IF transform % 2 = 0 THEN box.width ELSE box.height
        h == IF transform % 2 = 0 THEN box.height ELSE box.width
        right  == width - box.x - box.width
        bottom == height - box.y - box.height
    IN  CASE transform = WL_OUTPUT_TRANSFORM_NORMAL -> Box(box.x, box.y, w, h)
          [] transform = WL_OUTPUT_TRANSFORM_90 -> Box(box.y, right, w, h)
          [] transform = WL_OUTPUT_TRANSFORM_180 -> Box(right, bottom, w, h)
          [] transform = WL_OUTPUT_TRANSFORM_270 -> Box(bottom, box.x, w, h)
          [] transform = WL_OUTPUT_TRANSFORM_FLIPPED ->
                Box(right, box.y, w, h)
          [] transform = WL_OUTPUT_TRANSFORM_FLIPPED_90 ->
                Box(bottom, right, w, h)
          [] transform = WL_OUTPUT_TRANSFORM_FLIPPED_180 ->
                Box(box.x, bottom, w, h)
          [] transform = WL_OUTPUT_TRANSFORM_FLIPPED_270 ->
                Box(box.y, box.x, w, h)

\* framebuffer_box_from_damage_box(): whether the call signals a failure to
\* its caller.  The has_nonstandard_transform branch logs and returns.
unimplemented_raises(self) == FALSE

\* framebuffer_box_from_damage_box that never swaps the viewport's sides
swaps_viewport_never(wl_transform) == FALSE

\* framebuffer_box_from_damage_box(): "if (wl_transform & 1)
\* std::swap(width, height)"
swaps_viewport(wl_transform) == wl_transform % 2 = 1

\* wlr_box framebuffer_t::framebuffer_box_from_damage_box(wlr_box box) const
framebuffer_box_from_damage_box(self, box) ==
    IF self.has_nonstandard_transform
    THEN Box(0, 0, 0, 0)
    ELSE LET swap   == swaps_viewport(self.wl_transform)
             width  == IF swap THEN self.viewport_height
                       ELSE self.viewport_width
             height == IF swap THEN self.viewport_width
                       ELSE self.viewport_height
         IN  wlr_box_transform(box,
                 wlr_output_transform_invert(self.wl_transform),
                 width, height)

\* wlr_box framebuffer_t::framebuffer_box_from_geometry_box(wlr_box box) const
framebuffer_box_from_geometry_box(self, box) ==
    framebuffer_box_from_damage_box(self,
        damage_box_from_geometry_box(self, box))

\* wf::region_t framebuffer_t::get_damage_region() const: the region of one
\* box
get_damage_region(self) ==
    damage_box_from_geometry_box(self,
        Box(0, 0, self.geometry.width, self.geometry.height))

\* a conversion applied to the box at hand; get_damage_region takes no box
Convert(op, box, result, raised) ==
    /\ frame.fn = "convert"
    /\ ev' = [NoEv EXCEPT !.op = op, !.box = box, !.result = result,
                          !.raised = raised, !.returned = ~raised]
    /\ UNCHANGED <<tvars, pvars, rvars>>

DamageBoxFromGeometryBox ==
    Convert("damage_box_from_geometry_box", frame.box,
            damage_box_from_geometry_box(framebuffer, frame.box), FALSE)

FramebufferBoxFromDamageBox ==
    Convert("framebuffer_box_from_damage_box", frame.box,
            framebuffer_box_from_damage_box(framebuffer, frame.box),
            framebuffer.has_nonstandard_transform
                /\ unimplemented_raises(framebuffer))

FramebufferBoxFromGeometryBox ==
    Convert("framebuffer_box_from_geometry_box", frame.box,
            framebuffer_box_from_geometry_box(framebuffer, frame.box),
            framebuffer.has_nonstandard_transform
                /\ unimplemented_raises(framebuffer))

GetDamageRegion ==
    Convert("get_damage_region",
            Box(0, 0, framebuffer.geometry.width, framebuffer.geometry.height),
            get_damage_region(framebuffer), FALSE)

\* scissor() that passes box.y on as it is
scissor_y_top(self, box) == box.y

\* scissor(): the y of glScissor, "viewport_height - box.y - box.height"
scissor_y(self, box) == self.viewport_height - box.y - box.height

\* void framebuffer_base_t::scissor(wlr_box box) const: the rectangle passed
\* to glScissor
scissor(self, box) == Box(box.x, scissor_y(self, box), box.width, box.height)

\* scissor(box) on the framebuffer at hand: "glEnable(GL_SCISSOR_TEST);
\* glScissor(...)"
ScissorBox ==
    /\ frame.fn = "convert"
    /\ glScissorTest' = TRUE
    /\ ev' = [NoEv EXCEPT !.op = "scissor", !.box = frame.box,
                          !.result = scissor(framebuffer, frame.box),
                          !.returned = TRUE]
    /\ UNCHANGED <<glEnabledAttribs, glDivisors, glAttribPointers, glBlend,
                   boundTexExternal, egl_is_current, rendering>>
    /\ UNCHANGED <<tvars, pvars, mvars, cvars, framebuffer, evars>>

(***************************************************************************)
(* The matrices and texture_t                                              *)
(***************************************************************************)
\* cos and sin of q quarter turns, q * pi / 2.  WF_PI is 3.141592f, so the
\* float results of the source differ from these by less than 1e-6.
glm_cos(q) == CASE q % 4 = 0 -> 1 [] q % 4 = 2 -> -1 [] OTHER -> 0
glm_sin(q) == CASE q % 4 = 1 -> 1 [] q % 4 = 3 -> -1 [] OTHER -> 0

\* glm::scale(m, {x, y, z}): m * diag(x, y, z, 1)
glm_scale(m, v) ==
    MatMul(m, [i \in 1..4 |-> [j \in 1..4 |->
                  IF i # j THEN 0 ELSE IF i = 4 THEN 1 ELSE v[i]]])

\* glm::rotate(m, q * pi / 2, {0, 0, 1}): m * the rotation about Z
glm_rotate(m, q) ==
    MatMul(m, << <<glm_cos(q), -glm_sin(q), 0, 0>>,
                 <<glm_sin(q), glm_cos(q), 0, 0>>,
                 <<0, 0, 1, 0>>,
                 <<0, 0, 0, 1>> >>)

\* glm::mat4 get_output_matrix_from_transform(wl_output_transform transform)
get_output_matrix_from_transform(transform) ==
    LET scale == IF transform >= 4
                 THEN glm_scale(mat4(1), <<-1, 1, 0>>)
                 ELSE mat4(1)
        \* "transform & (~4)"
        rotation == transform % 4
        rotation_matrix ==
            IF rotation = WL_OUTPUT_TRANSFORM_90 THEN glm_rotate(mat4(1), -1)
            ELSE IF rotation = WL_OUTPUT_TRANSFORM_180
                 THEN glm_rotate(mat4(1), 2)
            ELSE IF rotation = WL_OUTPUT_TRANSFORM_270
                 THEN glm_rotate(mat4(1), 1)
            ELSE mat4(1)
    IN  MatMul(rotation_matrix, scale)

\* glm::ortho(left, right, bottom, top) times den, for den = (right -
\* left) * (top - bottom): the matrix with 2 / (right - left), 2 / (top -
\* bottom), -1 on the diagonal and -(right + left) / (right - left), -(top
\* + bottom) / (top - bottom) in the last column
glm_ortho(left, right, bottom, top) ==
    LET dx == right - left
        dy == top - bottom
    IN  [num |-> << <<2 * dy, 0, 0, -(right + left) * dy>>,
                    <<0, 2 * dx, 0, -(top + bottom) * dx>>,
                    <<0, 0, -(dx * dy), 0>>,
                    <<0, 0, 0, dx * dy>> >>,
         den |-> dx * dy]

\* the product the other way round
projection_swapped(transform, ortho) == MatMul(ortho, transform)

\* get_orthographic_projection(): "this->transform * ortho"
projection(transform, ortho) == MatMul(transform, ortho)

\* glm::mat4 framebuffer_t::get_orthographic_projection() const, as num /
\* den
get_orthographic_projection(self) ==
    LET g == self.geometry
        ortho == glm_ortho(g.x, g.x + g.width, g.y + g.height, g.y)
    IN  [num |-> projection(self.transform, ortho.num), den |-> ortho.den]

\* texture_t with invert_y as the source has it
texture_invert_y_same(inverted_y) == inverted_y

\* texture_t(wlr_texture*): "this->invert_y = !attribs.inverted_y"
texture_invert_y(inverted_y) == ~inverted_y

\* wf::texture_t::texture_t(wlr_texture *texture), from the attributes
\* wlr_gles2_texture_get_attribs() gives
texture_t(wlr_attribs) ==
    [invert_y |-> texture_invert_y(wlr_attribs.inverted_y),
     target |-> wlr_attribs.target,
     tex_id |-> wlr_attribs.tex,
     type |-> IF wlr_attribs.target = "GL_TEXTURE_2D"
              THEN (IF wlr_attribs.has_alpha THEN TEXTURE_TYPE_RGBA
                    ELSE TEXTURE_TYPE_RGBX)
              ELSE TEXTURE_TYPE_EXTERNAL]

\* wlr_gles2_texture_attribs of the textures clients import
WlrTextureAttribs ==
    [target : {"GL_TEXTURE_2D", "GL_TEXTURE_EXTERNAL_OES"},
     tex : 1..2,
     inverted_y : BOOLEAN,
     has_alpha : BOOLEAN]

\* the framebuffers whose projection is taken: an output rectangle that is
\* not empty, and the matrix of an output transform as transform
ProjectedFramebuffers ==
    {[framebuffer_t EXCEPT !.geometry = Box(x, y, w, h),
                           !.wl_transform = t,
                           !.transform = get_output_matrix_from_transform(t)] :
        x \in 0..1, y \in 0..1, w \in 1..MaxBox, h \in 1..MaxBox,
        t \in Transforms}

\* a call of a function of this section: nothing but its value
Pure(e) ==
    /\ frame.fn = "matrix"
    /\ ev' = e
    /\ UNCHANGED <<tvars, pvars, rvars>>

GetOutputMatrixFromTransform ==
    \E transform \in Transforms :
        Pure([NoEv EXCEPT
                !.op = "get_output_matrix_from_transform",
                !.transform = transform,
                !.matrix = get_output_matrix_from_transform(transform)])

GetOrthographicProjection ==
    Pure([NoEv EXCEPT
            !.op = "get_orthographic_projection",
            !.matrix = get_orthographic_projection(framebuffer).num,
            !.den = get_orthographic_projection(framebuffer).den])

TextureT ==
    \E wlr_attribs \in WlrTextureAttribs :
        Pure([NoEv EXCEPT !.op = "texture_t", !.attribs = wlr_attribs,
                          !.texture = texture_t(wlr_attribs)])

(***************************************************************************)
(* program_t: attributes, uniforms, deactivate                             *)
(***************************************************************************)
\* the number of vertex attribute locations of the driver
MaxAttribs == 2
\* the largest divisor passed to attrib_divisor
MaxDivisor == 2

AttribLocs == 0..(MaxAttribs - 1)
\* the attributes and uniforms of the built-in shaders
AttribNames == {"position", "uvPosition"}
UniformNames == {"MVP", "color", "_wayfire_y_base", "_wayfire_y_mult"}
\* glGetAttribLocation / glGetUniformLocation: no such active variable, or
\* not a linked program
NotFound == -1

\* a successfully linked program object
IsLinked(program) == program \in DOMAIN glPrograms /\ glPrograms[program]

\* the position of a name in the declarations of the shaders
NameIndex(name) ==
    CASE name = "position" -> 0
      [] name = "uvPosition" -> 1
      [] name = "MVP" -> 0
      [] name = "color" -> 1
      [] name = "_wayfire_y_base" -> 2
      [] name = "_wayfire_y_mult" -> 3

\* glGetAttribLocation(program, name).  The linker binds the attributes of a
\* program to locations of its choice; two programs need not agree.
glGetAttribLocation(program, name) ==
    IF IsLinked(program)
    THEN (NameIndex(name) + program) % MaxAttribs
    ELSE NotFound

\* glGetUniformLocation(program, name)
glGetUniformLocation(program, name) ==
    IF IsLinked(program) THEN NameIndex(name) ELSE NotFound

\* one cache for all types
cache_slot_shared(idx) == 0

\* "uniforms[active_program_idx]", "attribs[active_program_idx]": the map of
\* the array of per-type maps that a lookup reads and writes
cache_slot(idx) == idx

\* impl::find_attrib_loc(name): the value returned
find_attrib_loc(m, name) ==
    LET idx == active_program_idx[m]
    IN  IF name \in DOMAIN attribs[m][cache_slot(idx)]
        THEN attribs[m][cache_slot(idx)][name]
        ELSE glGetAttribLocation(id[m][idx], name)

\* find_attrib_loc that stores nothing
find_attrib_loc_cache_none(m, name) == attribs

\* impl::find_attrib_loc(name): "attribs[active_program_idx][name] = ..."
find_attrib_loc_cache(m, name) == [attribs EXCEPT ![m][cache_slot(active_program_idx[m])] = Put(@, name, find_attrib_loc(m, name))]

\* impl::find_attrib_loc(name): its glGetAttribLocation call, if it makes one
find_attrib_loc_queries(m, name) ==
    LET idx == active_program_idx[m]
    IN  IF name \in DOMAIN attribs[m][cache_slot(idx)] THEN <<>>
        ELSE << <<"attrib", id[m][idx], name>> >>

\* impl::find_uniform_loc(name) on a uniforms map: the value returned
find_uniform_loc(cache, m, name) ==
    LET idx == active_program_idx[m]
    IN  IF name \in DOMAIN cache[m][cache_slot(idx)]
        THEN cache[m][cache_slot(idx)][name]
        ELSE glGetUniformLocation(id[m][idx], name)

\* impl::find_uniform_loc(name) for the names of a sequence, in order: the
\* uniforms map it leaves
RECURSIVE find_uniform_loc_cache(_, _, _)
find_uniform_loc_cache(cache, m, names) ==
    IF names = <<>> THEN cache
    ELSE LET slot == cache_slot(active_program_idx[m])
             name == Head(names)
             loc  == find_uniform_loc(cache, m, name)
         IN  find_uniform_loc_cache(
                 [cache EXCEPT ![m][slot] = Put(cache[m][slot], name, loc)],
                 m, Tail(names))

\* ... the locations it returns, one per name
find_uniform_locs(m, names) ==
    [i \in 1..Len(names) |->
        find_uniform_loc(
            find_uniform_loc_cache(uniforms, m, SubSeq(names, 1, i - 1)),
            m, names[i])]

\* ... and its glGetUniformLocation calls
RECURSIVE find_uniform_loc_queries(_, _, _)
find_uniform_loc_queries(cache, m, names) ==
    IF names = <<>> THEN <<>>
    ELSE LET idx  == active_program_idx[m]
             name == Head(names)
         IN  (IF name \in DOMAIN cache[m][cache_slot(idx)] THEN <<>>
              ELSE << <<"uniform", id[m][idx], name>> >>)
             \o find_uniform_loc_queries(
                    find_uniform_loc_cache(cache, m, <<name>>),
                    m, Tail(names))

\* glEnableVertexAttribArray(loc): GL_INVALID_VALUE for a location that is
\* not below GL_MAX_VERTEX_ATTRIBS, as is (GLuint) -1
glEnableVertexAttribArray(loc) ==
    IF loc \in AttribLocs THEN glEnabledAttribs \cup {loc}
    ELSE glEnabledAttribs

\* glVertexAttribPointer(loc, size, type, GL_FALSE, stride, ptr)
glVertexAttribPointer(loc, ptr) ==
    IF loc \in AttribLocs THEN [glAttribPointers EXCEPT ![loc] = ptr]
    ELSE glAttribPointers

\* glVertexAttribDivisor(loc, divisor)
glVertexAttribDivisor(divisors, loc, divisor) ==
    IF loc \in AttribLocs THEN [divisors EXCEPT ![loc] = divisor]
    ELSE divisors

\* void program_t::attrib_pointer(attrib, size, stride, ptr, type)
attrib_pointer(m, attrib, ptr) ==
    LET loc == find_attrib_loc(m, attrib)
    IN  /\ attribs' = find_attrib_loc_cache(m, attrib)
        /\ active_attrs' = [active_attrs EXCEPT ![m] = @ \cup {loc}]
        /\ glEnabledAttribs' = glEnableVertexAttribArray(loc)
        /\ glAttribPointers' = glVertexAttribPointer(loc, ptr)
        /\ UNCHANGED <<uniforms, active_attrs_divisors, glDivisors, glBlend,
                       glScissorTest, boundTexExternal, egl_is_current,
                       rendering, framebuffer, evars>>
        /\ UNCHANGED <<tvars, pvars>>
        /\ ev' = [NoEv EXCEPT !.op = "attrib_pointer", !.m = m,
                              !.name = attrib, !.loc = loc,
                              !.names = <<attrib>>, !.locs = <<loc>>,
                              !.queries = find_attrib_loc_queries(m, attrib)]

\* void program_t::attrib_divisor(attrib, divisor)
attrib_divisor(m, attrib, divisor) ==
    LET loc == find_attrib_loc(m, attrib)
    IN  /\ attribs' = find_attrib_loc_cache(m, attrib)
        /\ active_attrs_divisors' =
              [active_attrs_divisors EXCEPT ![m] = @ \cup {loc}]
        /\ glDivisors' = glVertexAttribDivisor(glDivisors, loc, divisor)
        /\ UNCHANGED <<uniforms, active_attrs, glEnabledAttribs,
                       glAttribPointers, glBlend, glScissorTest,
                       boundTexExternal, egl_is_current, rendering,
                       framebuffer, evars>>
        /\ UNCHANGED <<tvars, pvars>>
        /\ ev' = [NoEv EXCEPT !.op = "attrib_divisor", !.m = m,
                              !.name = attrib, !.loc = loc,
                              !.names = <<attrib>>, !.locs = <<loc>>,
                              !.queries = find_attrib_loc_queries(m, attrib)]

\* the uniform setters: uniform1i, uniform1f, uniform2f, uniform4f and
\* uniformMatrix4f(name, value), here for the names of a sequence in order.
\* The values of uniforms are not kept.
uniform(m, names) ==
    /\ uniforms' = find_uniform_loc_cache(uniforms, m, names)
    /\ UNCHANGED <<attribs, active_attrs, active_attrs_divisors>>
    /\ UNCHANGED <<gvars, framebuffer, evars>>
    /\ UNCHANGED <<tvars, pvars>>
    /\ ev' = [NoEv EXCEPT !.op = "uniform", !.m = m, !.names = names,
                          !.locs = find_uniform_locs(m, names),
                          !.queries =
                              find_uniform_loc_queries(uniforms, m, names)]

\* deactivate() that disables nothing
deactivate_disables_none(attrs) == {}

\* deactivate(): the locations passed to glDisableVertexAttribArray, "for
\* (int loc : priv->active_attrs)"
deactivate_disables(attrs) == attrs

\* deactivate() that resets no divisor
deactivate_resets_none(divisors) == {}

\* deactivate(): the locations passed to glVertexAttribDivisor(loc, 0), "for
\* (int loc : priv->active_attrs_divisors)"
deactivate_resets(divisors) == divisors

\* void program_t::deactivate()
deactivate(m) ==
    LET disabled == deactivate_disables(active_attrs[m])
        reset_   == deactivate_resets(active_attrs_divisors[m])
    IN  /\ glDivisors' = [l \in AttribLocs |->
                             IF l \in reset_ THEN 0 ELSE glDivisors[l]]
        /\ glEnabledAttribs' = glEnabledAttribs \ disabled
        /\ active_attrs_divisors' =
              [active_attrs_divisors EXCEPT ![m] = {}]
        /\ active_attrs' = [active_attrs EXCEPT ![m] = {}]
        /\ glProgram' = glUseProgram(0)
        /\ UNCHANGED <<glPrograms, id, active_program_idx>>
        /\ UNCHANGED <<attribs, uniforms, glAttribPointers, glBlend,
                       glScissorTest, boundTexExternal, egl_is_current,
                       rendering, framebuffer, evars>>
        /\ UNCHANGED tvars
        /\ ev' = [NoEv EXCEPT !.op = "deactivate", !.m = m,
                              !.disabled = disabled, !.reset = reset_]

\* A user of program_t that owns a program of one type, as color_program is:
\* it registers it once, with set_simple(compile_program(...), type)
LoadProgram ==
    \E m \in Exercised, type \in Types, vs \in BOOLEAN, fs \in BOOLEAN :
        \E links \in LinkResults(vs, fs) :
            /\ \A c \in Types : id[m][c] = 0
            /\ set_simple(m, type, vs, fs, links)
            /\ UNCHANGED rvars

\* ... and then calls the attribute functions in any order
AttribPointer ==
    \E m \in Exercised, attrib \in AttribNames :
        attrib_pointer(m, attrib, "data") /\ UNCHANGED cvars

AttribDivisor ==
    \E m \in Exercised, attrib \in AttribNames, divisor \in 0..MaxDivisor :
        attrib_divisor(m, attrib, divisor) /\ UNCHANGED cvars

Deactivate == \E m \in Exercised : deactivate(m) /\ UNCHANGED cvars

\* A user of program_t that replaces its program while it runs, as a plugin
\* that builds its shader anew when an option changes: between set_simple()
\* and free_resources() it calls use() and sets the uniform "MVP"
Uniform ==
    \E m \in Exercised :
        uniform(m, <<"MVP">>) /\ UNCHANGED cvars

(***************************************************************************)
(* The render pipeline: init / fini / render_begin / render_end and the    *)
(* drawing functions.  A pipeline function runs statement by statement: pc *)
(* is the statement it is at, frame its arguments and arrays, trace the    *)
(* calls it has made.  The layer is single-threaded, so one function runs  *)
(* at a time and nothing else happens until it returns.                    *)
(***************************************************************************)
\* enum texture_rendering_flags_t
TEXTURE_TRANSFORM_INVERT_X == 1
TEXTURE_TRANSFORM_INVERT_Y == 2
TEXTURE_USE_TEX_GEOMETRY == 4
Bits == 0..(TEXTURE_TRANSFORM_INVERT_X + TEXTURE_TRANSFORM_INVERT_Y
              + TEXTURE_USE_TEX_GEOMETRY)

\* "bits & flag" is not 0, for a flag that is a power of two
HasBit(bits, flag) == (bits \div flag) % 2 = 1
\* "bits & ~flag"
ClearBit(bits, flag) == IF HasBit(bits, flag) THEN bits - flag ELSE bits

\* struct gl_geometry { float x1, y1, x2, y2; }
GlGeometry(x1, y1, x2, y2) == [x1 |-> x1, y1 |-> y1, x2 |-> x2, y2 |-> y2]

\* the arguments the drawing functions are called with
Geometries == {Box(1, 0, 2, 1)}
GlGeometries == {GlGeometry(0, 1, 2, 3)}
TexGeometries == {GlGeometry(0, 0, 1, 1), GlGeometry(1, 0, 0, 1)}
\* framebuffer.geometry.x, framebuffer.geometry.y of the framebuffer overload
Origins == {<<0, 0>>, <<1, 2>>}
\* texture_t::tex_id of the views drawn
TexIds == {1}
\* the framebuffers the callers of render_begin pass: a framebuffer object
\* of theirs (init and fini pass the default one)
RenderFbs == {1}

\* texture_t(wlr_texture*): the target of a view of a type, "if
\* (this->target == GL_TEXTURE_2D) ... else type = TEXTURE_TYPE_EXTERNAL"
texture_target(type) ==
    IF type = TEXTURE_TYPE_EXTERNAL THEN "GL_TEXTURE_EXTERNAL_OES"
    ELSE "GL_TEXTURE_2D"

\* render_transformed_texture(): vertexData, "final_g = g; if (bits &
\* INVERT_Y) swap(y1, y2); if (bits & INVERT_X) swap(x1, x2);"
vertexData(g, bits) ==
    LET inv_y == HasBit(bits, TEXTURE_TRANSFORM_INVERT_Y)
        inv_x == HasBit(bits, TEXTURE_TRANSFORM_INVERT_X)
        x1 == IF inv_x THEN g.x2 ELSE g.x1
        x2 == IF inv_x THEN g.x1 ELSE g.x2
        y1 == IF inv_y THEN g.y2 ELSE g.y1
        y2 == IF inv_y THEN g.y1 ELSE g.y2
    IN  <<x1, y2, x2, y2, x2, y1, x1, y1>>

\* render_transformed_texture(): coordData
coordData(texg, bits) ==
    IF HasBit(bits, TEXTURE_USE_TEX_GEOMETRY)
    THEN <<texg.x1, texg.y2, texg.x2, texg.y2,
           texg.x2, texg.y1, texg.x1, texg.y1>>
    ELSE <<0, 0, 1, 0, 1, 1, 0, 1>>

\* render_transformed_texture(texture, geometry, transform, color, bits): gg
gl_geometry_of(geometry) ==
    GlGeometry(geometry.x, geometry.y,
               geometry.x + geometry.width, geometry.y + geometry.height)

\* render_transformed_texture(texture, framebuffer, geometry, color, bits):
\* actual_geometry
actual_geometry(geometry, origin) ==
    [geometry EXCEPT !.x = @ + origin[1], !.y = @ + origin[2]]

\* ... and the geometry it passes on: "render_transformed_texture(texture,
\* geometry, framebuffer.get_orthographic_projection(), color, bits)"
passed_geometry(geometry, actual) == geometry

\* render_rectangle(): vertexData
rectangle_vertexData(geometry) ==
    LET x == geometry.x
        y == geometry.y
        w == geometry.width
        h == geometry.height
    IN  <<x, y + h, x + w, y + h, x + w, y, x, y>>

\* void render_begin(int32_t viewport_width, int32_t viewport_height,
\* uint32_t fb): wlr_egl_make_current unless a context is current,
\* wlr_renderer_begin, glBindFramebuffer(GL_FRAMEBUFFER, fb).  The viewport
\* is not kept.
render_begin(fb) ==
    /\ ~rendering
    /\ egl_is_current' = TRUE
    /\ rendering' = TRUE
    /\ boundFb' = fb
    /\ UNCHANGED <<targets, glFramebuffers, glTextures, boundTex>>
    /\ UNCHANGED <<glEnabledAttribs, glDivisors, glAttribPointers, glBlend,
                   glScissorTest, boundTexExternal>>
    /\ UNCHANGED <<pvars, mvars, framebuffer, evars>>

\* wlr_renderer_scissor that leaves the scissor test as it is
wlr_renderer_scissor_kept(box) == glScissorTest

\* wlroots, wlr_renderer_scissor(renderer, box): whether GL_SCISSOR_TEST is
\* enabled afterwards, "if (box != NULL) { glScissor(...);
\* glEnable(GL_SCISSOR_TEST); } else { glDisable(GL_SCISSOR_TEST); }"
wlr_renderer_scissor(box) == box # "NULL"

\* void render_end(): glBindFramebuffer(GL_FRAMEBUFFER, 0),
\* wlr_renderer_scissor(renderer, NULL), wlr_renderer_end(renderer)
render_end ==
    /\ rendering
    /\ boundFb' = 0
    /\ glScissorTest' = wlr_renderer_scissor("NULL")
    /\ rendering' = FALSE
    /\ UNCHANGED <<targets, glFramebuffers, glTextures, boundTex>>
    /\ UNCHANGED <<glEnabledAttribs, glDivisors, glAttribPointers, glBlend,
                   boundTexExternal, egl_is_current>>
    /\ UNCHANGED <<pvars, mvars, framebuffer, evars>>

\* the caller brackets a render pass
RenderBegin ==
    \E fb \in RenderFbs :
        /\ pc = "idle"
        /\ render_begin(fb)
        /\ ev' = [NoEv EXCEPT !.op = "render_begin"]
        /\ trace' = <<"render_begin">>
        /\ UNCHANGED <<pc, frame>>

RenderEnd ==
    /\ pc = "idle"
    /\ render_end
    /\ ev' = [NoEv EXCEPT !.op = "render_end"]
    /\ trace' = <<"render_end">>
    /\ UNCHANGED <<pc, frame>>

\* void framebuffer_base_t::scissor(wlr_box box) const, inside a render
\* pass: glEnable(GL_SCISSOR_TEST), glScissor(...).  The rectangle is not
\* kept.
Scissor ==
    /\ pc = "idle"
    /\ rendering
    /\ glScissorTest' = TRUE
    /\ ev' = [NoEv EXCEPT !.op = "scissor"]
    /\ trace' = <<"scissor">>
    /\ UNCHANGED <<glEnabledAttribs, glDivisors, glAttribPointers, glBlend,
                   boundTexExternal, egl_is_current, rendering>>
    /\ UNCHANGED <<tvars, pvars, mvars, framebuffer, evars, pc, frame>>

\* void init(), called once, before the layer has made the EGL context
\* current: "render_begin();"
InitBegin ==
    /\ pc = "idle"
    /\ ~egl_is_current
    /\ render_begin(0)
    /\ pc' = "init_compile"
    /\ frame' = [NoFrame EXCEPT !.fn = "init"]
    /\ trace' = <<"render_begin">>
    /\ ev' = [NoEv EXCEPT !.op = "render_begin"]

\* init(): "program.compile(default_vertex_shader_source,
\* default_fragment_shader_source);"
InitCompile ==
    \E vs \in BOOLEAN, fs \in [Types -> BOOLEAN] :
        \E links \in [Types -> BOOLEAN] :
            /\ pc = "init_compile"
            /\ \A c \in Types : links[c] \in LinkResults(vs, fs[c])
            /\ compile("program", vs, fs, links)
            /\ pc' = "init_set_simple"
            /\ trace' = Append(trace, "compile")
            /\ UNCHANGED <<mvars, gvars, framebuffer, evars, frame>>

\* init(): "color_program.set_simple(compile_program(
\* default_vertex_shader_source, color_rect_fragment_source));"
InitSetSimple ==
    \E vs \in BOOLEAN, fs \in BOOLEAN :
        \E links \in LinkResults(vs, fs) :
            /\ pc = "init_set_simple"
            /\ set_simple("color_program", TEXTURE_TYPE_RGBA, vs, fs, links)
            /\ pc' = "init_end"
            /\ trace' = Append(trace, "set_simple")
            /\ UNCHANGED <<mvars, gvars, framebuffer, evars, frame>>

\* init(): "render_end();"
InitEnd ==
    /\ pc = "init_end"
    /\ render_end
    /\ pc' = "idle"
    /\ frame' = NoFrame
    /\ trace' = Append(trace, "render_end")
    /\ ev' = [NoEv EXCEPT !.op = "render_end"]

\* void fini(), called when the layer that init() set up is torn down:
\* "render_begin();"
FiniBegin ==
    /\ pc = "idle"
    /\ Held(id["program"]) \cup Held(id["color_program"]) # {}
    /\ render_begin(0)
    /\ pc' = "fini_program"
    /\ frame' = [NoFrame EXCEPT !.fn = "fini"]
    /\ trace' = <<"render_begin">>
    /\ ev' = [NoEv EXCEPT !.op = "render_begin"]

\* fini(): "program.free_resources();"
FiniProgram ==
    /\ pc = "fini_program"
    /\ free_resources("program")
    /\ pc' = "fini_color_program"
    /\ trace' = Append(trace, "free_resources")
    /\ UNCHANGED <<mvars, gvars, framebuffer, evars, frame>>

\* fini(): "color_program.free_resources();"
FiniColorProgram ==
    /\ pc = "fini_color_program"
    /\ free_resources("color_program")
    /\ pc' = "fini_end"
    /\ trace' = Append(trace, "free_resources")
    /\ UNCHANGED <<mvars, gvars, framebuffer, evars, frame>>

\* fini(): "render_end();"
FiniEnd ==
    /\ pc = "fini_end"
    /\ render_end
    /\ pc' = "idle"
    /\ frame' = NoFrame
    /\ trace' = Append(trace, "render_end")
    /\ ev' = [NoEv EXCEPT !.op = "render_end"]

\* glBindTexture(target, texture)
glBindTexture(target, texture) ==
    [tex2d    |-> IF target = "GL_TEXTURE_2D" THEN texture ELSE boundTex,
     external |-> IF target = "GL_TEXTURE_EXTERNAL_OES" THEN texture
                  ELSE boundTexExternal]

\* void program_t::set_active_texture(const wf::texture_t& texture):
\* glActiveTexture(GL_TEXTURE0), glBindTexture, glTexParameteri,
\* uniform1f("_wayfire_y_base", ...), uniform1f("_wayfire_y_mult", ...)
set_active_texture(m, texture) ==
    LET bound == glBindTexture(texture_target(texture.type), texture.tex_id)
    IN  /\ boundTex' = bound.tex2d
        /\ boundTexExternal' = bound.external
        /\ uniforms' = find_uniform_loc_cache(uniforms, m,
                           <<"_wayfire_y_base", "_wayfire_y_mult">>)
        /\ UNCHANGED <<targets, glFramebuffers, glTextures, boundFb>>
        /\ UNCHANGED <<attribs, active_attrs, active_attrs_divisors>>
        /\ UNCHANGED <<glEnabledAttribs, glDivisors, glAttribPointers,
                       glBlend, glScissorTest, egl_is_current, rendering>>
        /\ UNCHANGED <<pvars, framebuffer, evars>>
        /\ ev' = [NoEv EXCEPT
                    !.op = "set_active_texture", !.m = m,
                    !.names = <<"_wayfire_y_base", "_wayfire_y_mult">>,
                    !.locs = find_uniform_locs(m,
                                 <<"_wayfire_y_base", "_wayfire_y_mult">>),
                    !.queries = find_uniform_loc_queries(uniforms, m,
                                 <<"_wayfire_y_base", "_wayfire_y_mult">>)]

\* the entry of a drawing function up to and including its "use(type)":
\* use() throws out of it, or the function goes on with its arrays built
enter(fn, via, m, tex, geometry, origin, bits, texg, transform, vertices, coords) ==
    /\ pc = "idle"
    /\ rendering
    /\ use(m, tex.type)
    /\ UNCHANGED <<mvars, gvars, framebuffer, evars>>
    /\ trace' = <<"use">>
    /\ IF no_program(id[m][tex.type])
       THEN pc' = "idle" /\ frame' = NoFrame
       ELSE /\ pc' = IF fn = "render_rectangle" THEN "position"
                     ELSE "set_active_texture"
            /\ frame' = [NoFrame EXCEPT
                           !.fn = fn, !.via = via, !.m = m, !.tex = tex,
                           !.geometry = geometry, !.origin = origin,
                           !.bits = bits, !.texg = texg,
                           !.transform = transform,
                           !.vertexData = vertices, !.coordData = coords]

\* void render_transformed_texture(wf::texture_t tex, const gl_geometry& g,
\* const gl_geometry& texg, glm::mat4 model, glm::vec4 color, uint32_t bits)
render_transformed_texture(via, tex, g, texg, bits, transform, geometry, origin) ==
    enter("render_transformed_texture", via, "program", tex, geometry,
          origin, bits, texg, transform, vertexData(g, bits),
          coordData(texg, bits))

RenderTransformedTexture ==
    \E type \in Types, tex_id \in TexIds, g \in GlGeometries,
       texg \in TexGeometries, bits \in Bits :
        render_transformed_texture("gl_geometry",
            [type |-> type, tex_id |-> tex_id], g, texg, bits, "transform",
            Box(0, 0, 0, 0), <<0, 0>>)

\* void render_transformed_texture(wf::texture_t texture, const
\* wf::geometry_t& geometry, glm::mat4 transform, glm::vec4 color,
\* uint32_t bits): "bits &= ~TEXTURE_USE_TEX_GEOMETRY; ...
\* render_transformed_texture(texture, gg, {}, transform, color, bits);"
render_transformed_texture_geometry(via, tex, geometry, bits, transform, arg, origin) ==
    render_transformed_texture(via, tex, gl_geometry_of(geometry),
        GlGeometry(0, 0, 0, 0), ClearBit(bits, TEXTURE_USE_TEX_GEOMETRY),
        transform, arg, origin)

RenderTransformedTextureGeometry ==
    \E type \in Types, tex_id \in TexIds, geometry \in Geometries,
       bits \in Bits :
        render_transformed_texture_geometry("geometry",
            [type |-> type, tex_id |-> tex_id], geometry, bits, "transform",
            geometry, <<0, 0>>)

\* void render_transformed_texture(wf::texture_t texture, const
\* wf::framebuffer_t& framebuffer, const wf::geometry_t& geometry,
\* glm::vec4 color, uint32_t bits), declared as render_texture
\*   origin : framebuffer.geometry.x, framebuffer.geometry.y
render_texture(tex, origin, geometry, bits) ==
    render_transformed_texture_geometry("framebuffer", tex,
        passed_geometry(geometry, actual_geometry(geometry, origin)),
        bits, "framebuffer.get_orthographic_projection()", geometry, origin)

RenderTexture ==
    \E type \in Types, tex_id \in TexIds, origin \in Origins,
       geometry \in Geometries, bits \in Bits :
        render_texture([type |-> type, tex_id |-> tex_id], origin,
                       geometry, bits)

\* void render_rectangle(wf::geometry_t geometry, wf::color_t color,
\* glm::mat4 matrix)
render_rectangle(geometry) ==
    enter("render_rectangle", "geometry", "color_program",
          [type |-> TEXTURE_TYPE_RGBA, tex_id |-> 0], geometry, <<0, 0>>,
          0, NoFrame.texg, "matrix", rectangle_vertexData(geometry), <<>>)

RenderRectangle == \E geometry \in Geometries : render_rectangle(geometry)

\* "program.set_active_texture(tex);"
DrawSetActiveTexture ==
    /\ pc = "set_active_texture"
    /\ set_active_texture(frame.m, frame.tex)
    /\ pc' = "position"
    /\ trace' = Append(trace, "set_active_texture")
    /\ UNCHANGED frame

\* "attrib_pointer("position", 2, 0, vertexData);"
DrawPosition ==
    /\ pc = "position"
    /\ attrib_pointer(frame.m, "position", "vertexData")
    /\ pc' = IF frame.fn = "render_rectangle" THEN "uniforms"
             ELSE "uvPosition"
    /\ trace' = Append(trace, "attrib_pointer position")
    /\ UNCHANGED frame

\* "program.attrib_pointer("uvPosition", 2, 0, coordData);"
DrawUvPosition ==
    /\ pc = "uvPosition"
    /\ attrib_pointer(frame.m, "uvPosition", "coordData")
    /\ pc' = "uniforms"
    /\ trace' = Append(trace, "attrib_pointer uvPosition")
    /\ UNCHANGED frame

\* "uniformMatrix4f("MVP", model); uniform4f("color", color);"
DrawUniforms ==
    /\ pc = "uniforms"
    /\ uniform(frame.m, <<"MVP", "color">>)
    /\ pc' = "blend"
    /\ trace' = trace \o <<"uniformMatrix4f MVP", "uniform4f color">>
    /\ UNCHANGED frame

\* "glEnable(GL_BLEND); glBlendFunc(GL_ONE, GL_ONE_MINUS_SRC_ALPHA);"
DrawBlend ==
    /\ pc = "blend"
    /\ glBlend' = [enabled |-> TRUE, sfactor |-> "GL_ONE",
                   dfactor |-> "GL_ONE_MINUS_SRC_ALPHA"]
    /\ pc' = "draw"
    /\ trace' = trace \o <<"glEnable GL_BLEND", "glBlendFunc">>
    /\ ev' = [NoEv EXCEPT !.op = "glBlendFunc"]
    /\ UNCHANGED <<glEnabledAttribs, glDivisors, glAttribPointers,
                   glScissorTest, boundTexExternal, egl_is_current,
                   rendering>>
    /\ UNCHANGED <<tvars, pvars, mvars, framebuffer, evars, frame>>

\* the array an enabled attribute location points to
ArrayAt(l) ==
    CASE glAttribPointers[l] = "vertexData" -> frame.vertexData
      [] glAttribPointers[l] = "coordData" -> frame.coordData
      [] OTHER -> <<>>

\* glDrawArrays(mode, first, count) and the GL state it draws with
glDrawArrays(mode, first, count) ==
    [mode |-> mode, first |-> first, count |-> count,
     program |-> glProgram,
     blend |-> glBlend,
     texture |-> IF texture_target(frame.tex.type) = "GL_TEXTURE_2D"
                 THEN boundTex ELSE boundTexExternal,
     arrays |-> [l \in glEnabledAttribs |-> ArrayAt(l)]]

\* "glDrawArrays(GL_TRIANGLE_FAN, 0, 4);"
DrawArrays ==
    /\ pc = "draw"
    /\ pc' = "deactivate"
    /\ trace' = Append(trace, "glDrawArrays")
    /\ ev' = [NoEv EXCEPT
                !.op = "glDrawArrays", !.m = frame.m,
                !.drawn = <<glDrawArrays("GL_TRIANGLE_FAN", 0, 4)>>]
    /\ UNCHANGED <<tvars, pvars, mvars, gvars, framebuffer, evars, frame>>

\* "program.deactivate();" and the return
DrawDeactivate ==
    /\ pc = "deactivate"
    /\ deactivate(frame.m)
    /\ pc' = "idle"
    /\ frame' = NoFrame
    /\ trace' = Append(trace, "deactivate")

(***************************************************************************)
(* gl_call and GL_CALL                                                     *)
(***************************************************************************)
\* the lines the log holds at most
MaxLog == 2

\* GLenum error codes of <GLES3/gl3.h>
GL_NO_ERROR == 0
GL_INVALID_ENUM == 1280
GL_INVALID_VALUE == 1281
GL_INVALID_OPERATION == 1282
GL_OUT_OF_MEMORY == 1285
GL_INVALID_FRAMEBUFFER_OPERATION == 1286
GlErrors ==
    {GL_INVALID_ENUM, GL_INVALID_VALUE, GL_INVALID_OPERATION,
     GL_OUT_OF_MEMORY, GL_INVALID_FRAMEBUFFER_OPERATION}

\* __STRING(x) of the GL_CALL(x) lines of render_transformed_texture
GlFuncs == {"glEnable(GL_BLEND)", "glDrawArrays(GL_TRIANGLE_FAN, 0, 4)"}

\* const char* gl_error_string(const GLenum err)
gl_error_string(err) ==
    CASE err = GL_INVALID_ENUM -> "GL_INVALID_ENUM"
      [] err = GL_INVALID_VALUE -> "GL_INVALID_VALUE"
      [] err = GL_INVALID_OPERATION -> "GL_INVALID_OPERATION"
      [] err = GL_OUT_OF_MEMORY -> "GL_OUT_OF_MEMORY"
      [] OTHER -> "UNKNOWN GL ERROR"

\* glGetError(): the values it may return when the flags are set, the code
\* of any one of them, GL_NO_ERROR when there is none; the flag it returns
\* is reset
glGetError(flags) == IF flags = {} THEN {GL_NO_ERROR} ELSE flags

\* "LOGE("gles2: function ", glfunc, " in ", func, " line ", line, ": ",
\* gl_error_string(...))"
LOGE(glfunc, error) == [glfunc |-> glfunc, error |-> error]

\* void gl_call(const char *func, uint32_t line, const char *glfunc), entered
\* with the flags pending set: "if ((err = glGetError()) == GL_NO_ERROR)
\* return; LOGE(..., gl_error_string(glGetError()));"
gl_call(glfunc, pending) ==
    /\ \E err \in glGetError(pending) :
          IF err = GL_NO_ERROR
          THEN /\ glErrors' = pending
               /\ log' = log
               /\ ev' = [NoEv EXCEPT !.op = "GL_CALL", !.name = glfunc,
                                     !.pending = pending]
          ELSE \E err2 \in glGetError(pending \ {err}) :
                  /\ Len(log) < MaxLog
                  /\ glErrors' = pending \ {err, err2}
                  /\ log' = Append(log, LOGE(glfunc, gl_error_string(err2)))
                  /\ ev' = [NoEv EXCEPT
                              !.op = "GL_CALL", !.name = glfunc,
                              !.pending = pending,
                              !.logged =
                                  <<LOGE(glfunc, gl_error_string(err2))>>]
    /\ UNCHANGED <<tvars, pvars, mvars, gvars, cvars, framebuffer>>

\* "#define GL_CALL(x) x; gl_call(__PRETTY_FUNCTION__, __LINE__,
\* __STRING(x))": the GL function runs, sets the flag of the error it
\* raises if it raises one, and gl_call follows
GlCall ==
    \E glfunc \in GlFuncs, raised \in GlErrors \cup {GL_NO_ERROR} :
        gl_call(glfunc, glErrors \cup (GlErrors \cap {raised}))

\* the GL commands the wlr renderer issues on the same context between
\* render_begin() and render_end(), which no gl_call follows: one of them
\* raises an error
WlrRendererError ==
    \E raised \in GlErrors \ glErrors :
        /\ glErrors' = glErrors \cup {raised}
        /\ log' = log
        /\ ev' = [NoEv EXCEPT !.op = "wlr_renderer", !.pending = glErrors']
        /\ UNCHANGED <<tvars, pvars, mvars, gvars, cvars, framebuffer>>

(***************************************************************************)
(* Specifications                                                          *)
(***************************************************************************)
\* the state of the GL objects, of the two multiplexers and of the
\* renderer before the first call
InitGL ==
    /\ targets = [t \in Targets |-> framebuffer_base_t]
    /\ glFramebuffers = {}
    /\ glTextures = << >>
    /\ boundFb = 0
    /\ boundTex = 0
    /\ glPrograms = << >>
    /\ glProgram = 0
    \* program_t::program_t(): id[i] = 0;  impl: active_program_idx = 0
    /\ id = [m \in Programs |-> [c \in Types |-> 0]]
    /\ active_program_idx = [m \in Programs |-> 0]
    \* impl: the maps and sets are empty
    /\ attribs = [m \in Programs |-> [c \in Types |-> << >>]]
    /\ uniforms = [m \in Programs |-> [c \in Types |-> << >>]]
    /\ active_attrs = [m \in Programs |-> {}]
    /\ active_attrs_divisors = [m \in Programs |-> {}]
    \* the initial GL state
    /\ glEnabledAttribs = {}
    /\ glDivisors = [l \in AttribLocs |-> 0]
    /\ glAttribPointers = [l \in AttribLocs |-> "null"]
    /\ glBlend = [enabled |-> FALSE, sfactor |-> "GL_ONE",
                  dfactor |-> "GL_ZERO"]
    /\ glScissorTest = FALSE
    /\ boundTexExternal = 0
    /\ egl_is_current = FALSE
    /\ rendering = FALSE
    /\ glErrors = {}
    /\ log = <<>>
    /\ pc = "idle"
    /\ trace = <<>>
    /\ ev = NoEv

Init ==
    /\ InitGL
    /\ framebuffer = framebuffer_t
    /\ frame = NoFrame

\* the box conversions are functions of the framebuffer's fields and the
\* box: every framebuffer and box of the bounds
InitBox ==
    /\ InitGL
    /\ framebuffer \in Framebuffers
    /\ frame \in {[NoFrame EXCEPT !.fn = "convert", !.box = b] : b \in Boxes}

NextTarget ==
    \/ Allocate
    \/ Release
    \/ MoveAssign
    \/ DefaultStream

SpecTarget == Init /\ [][NextTarget]_vars

\* the life of render targets whose owner uses every operation of
\* framebuffer_base_t and writes no field itself
NextLife ==
    \/ AllocateSquare
    \/ Release
    \/ Reset
    \/ MoveAssign
    \/ MoveConstruct

SpecLife == Init /\ [][NextLife]_vars

NextProgram ==
    \/ Compile
    \/ SetSimple
    \/ FreeResources
    \/ Use

SpecProgram == Init /\ [][NextProgram]_vars

NextAttrib ==
    \/ LoadProgram
    \/ Use
    \/ AttribPointer
    \/ AttribDivisor
    \/ Deactivate

SpecAttrib == Init /\ [][NextAttrib]_vars

NextCache ==
    \/ SetSimple
    \/ FreeResources
    \/ Use
    \/ Uniform

SpecCache == Init /\ [][NextCache]_vars

NextBox ==
    \/ DamageBoxFromGeometryBox
    \/ FramebufferBoxFromDamageBox
    \/ FramebufferBoxFromGeometryBox
    \/ GetDamageRegion
    \/ ScissorBox

SpecBox == InitBox /\ [][NextBox]_vars

\* the matrices and the texture views are functions of their arguments and
\* of the framebuffer's fields: every framebuffer of the bounds
InitMatrix ==
    /\ InitGL
    /\ framebuffer \in ProjectedFramebuffers
    /\ frame = [NoFrame EXCEPT !.fn = "matrix"]

NextMatrix ==
    \/ GetOutputMatrixFromTransform
    \/ GetOrthographicProjection
    \/ TextureT

SpecMatrix == InitMatrix /\ [][NextMatrix]_vars

\* the GL calls made through GL_CALL and the errors the wlr renderer leaves
NextError == GlCall \/ WlrRendererError
SpecError == Init /\ [][NextError]_vars

NextRender ==
    \/ InitBegin
    \/ InitCompile
    \/ InitSetSimple
    \/ InitEnd
    \/ FiniBegin
    \/ FiniProgram
    \/ FiniColorProgram
    \/ FiniEnd
    \/ RenderBegin
    \/ RenderEnd
    \/ Scissor
    \/ RenderTransformedTexture
    \/ RenderTransformedTextureGeometry
    \/ RenderTexture
    \/ RenderRectangle
    \/ DrawSetActiveTexture
    \/ DrawPosition
    \/ DrawUvPosition
    \/ DrawUniforms
    \/ DrawBlend
    \/ DrawArrays
    \/ DrawDeactivate

SpecRender == Init /\ [][NextRender]_vars

(***************************************************************************)
(* Claims                                                                  *)
(***************************************************************************)
\* number of times x occurs in the sequence seq
Count(seq, x) == Cardinality({i \in DOMAIN seq : seq[i] = x})

\* the size a target currently reports
Size(self) == <<self.viewport_width, self.viewport_height>>

C2_FailedAllocateIsNoOp ==
    [][(ev'.op = "allocate" /\ ev'.failed) =>
          /\ ~ev'.ret
          /\ targets' = targets
          /\ glTextures' = glTextures
          /\ boundTex' = boundTex
          /\ boundFb' = boundFb]_vars

\* C3 (as stated): allocate returns true exactly in the calls that created a
\* GPU object or reallocated the texture storage.
C3_TrueIffCreatedOrReallocated ==
    ev.op = "allocate" =>
        (ev.ret <=> (ev.created_fb \/ ev.created_tex \/ ev.realloc))

\* C4 (as stated): an allocate or release on a target whose fb is 0 creates
\* no texture, allocates no texture storage and deletes no GPU object.
C4_DefaultTargetOwnsNothing ==
    [][(ev'.op \in {"allocate", "release"} /\ targets[ev'.t].fb = 0) =>
          /\ ~ev'.created_tex /\ ~ev'.realloc
          /\ ev'.deleted = <<>>
          /\ glTextures' = glTextures
          /\ glFramebuffers' = glFramebuffers]_vars

\* a target that holds a framebuffer object and a texture object
Allocated(self) == self.fb \in Names /\ self.tex \in Names

\* C5: move-assigning B onto an allocated A (A # B) deletes A's framebuffer
\* and A's texture exactly once each and nothing else, leaves A with B's
\* handles and size and B unset, and B's objects alive; move-assigning a
\* target onto itself deletes nothing and changes nothing.
C5_MoveAssign ==
    [][ev'.op = "move_assign" =>
          LET a == targets[ev'.t]
              b == targets[ev'.src]
          IN  IF ev'.t = ev'.src
              THEN ev'.deleted = <<>> /\ UNCHANGED tvars
              ELSE /\ Allocated(a) =>
                        /\ Count(ev'.deleted, <<"fb", a.fb>>) = 1
                        /\ Count(ev'.deleted, <<"tex", a.tex>>) = 1
                        /\ Len(ev'.deleted) = 2
                        /\ a.fb \notin glFramebuffers'
                        /\ a.tex \notin DOMAIN glTextures'
                   /\ targets'[ev'.t] = b
                   /\ targets'[ev'.src] = framebuffer_base_t
                   /\ Allocated(b) =>
                        /\ b.fb \in glFramebuffers'
                        /\ b.tex \in DOMAIN glTextures'
                        /\ glTextures'[b.tex] = glTextures[b.tex]]_vars

\* C5 witness: an allocated target has been move-assigned onto another
\* allocated target, whose two objects were deleted.
C5_Witness ==
    /\ ev.op = "move_assign" /\ ev.t # ev.src
    /\ Len(ev.deleted) = 2
    /\ Allocated(targets[ev.t])
    /\ targets[ev.src] = framebuffer_base_t

\* C6: release() deletes the framebuffer and the texture the target holds
\* exactly once each, never deletes the name 0 or anything else, leaves the
\* target unset with width = height = 0, and a release() directly after a
\* release() of the same target deletes nothing and changes nothing.
C6_Release ==
    [][ev'.op = "release" =>
          LET self == targets[ev'.t]
          IN  /\ self.fb \in Names =>
                    /\ Count(ev'.deleted, <<"fb", self.fb>>) = 1
                    /\ self.fb \notin glFramebuffers'
              /\ self.tex \in Names =>
                    /\ Count(ev'.deleted, <<"tex", self.tex>>) = 1
                    /\ self.tex \notin DOMAIN glTextures'
              /\ \A i \in DOMAIN ev'.deleted :
                    /\ ev'.deleted[i] \in {<<"fb", self.fb>>,
                                           <<"tex", self.tex>>}
                    /\ ev'.deleted[i][2] \in Names
              /\ targets'[ev'.t] = framebuffer_base_t
              /\ (ev.op = "release" /\ ev.t = ev'.t) =>
                    (ev'.deleted = <<>> /\ UNCHANGED tvars)]_vars

\* C6 witness: a release() has deleted a framebuffer and a texture and left
\* the target unset.
C6_Witness ==
    /\ ev.op = "release"
    /\ Len(ev.deleted) = 2
    /\ targets[ev.t] = framebuffer_base_t

\* C7: use(type) raises exactly when no program is registered for type;
\* otherwise it passes the registered program to glUseProgram, which makes
\* it current if it is a linked program, and makes type the active type.
\* A use() directly after a set_simple(h, RGBA) with h a linked program
\* succeeds for RGBA and raises for RGBX and EXTERNAL.
C7_Use ==
    /\ [](ev.op = "use" =>
            /\ ev.raised <=> id[ev.m][ev.type] = 0
            /\ ~ev.raised =>
                  /\ ev.used = id[ev.m][ev.type]
                  /\ active_program_idx[ev.m] = ev.type
                  /\ (ev.used \in DOMAIN glPrograms /\ glPrograms[ev.used])
                        => glProgram = ev.used)
    /\ [][(/\ ev.op = "set_simple" /\ ev.type = TEXTURE_TYPE_RGBA
           /\ id[ev.m][TEXTURE_TYPE_RGBA] \in DOMAIN glPrograms
           /\ glPrograms[id[ev.m][TEXTURE_TYPE_RGBA]]
           /\ ev'.op = "use" /\ ev'.m = ev.m) =>
             /\ ev'.raised <=> ev'.type # TEXTURE_TYPE_RGBA
             /\ ~ev'.raised => glProgram' = id[ev.m][TEXTURE_TYPE_RGBA]]_vars

\* C7 witness: with a linked program registered for RGBA only, use(RGBA) has
\* succeeded and made it the current program.
C7_Witness ==
    /\ ev.op = "use" /\ ~ev.raised /\ ev.type = TEXTURE_TYPE_RGBA
    /\ id[ev.m][TEXTURE_TYPE_RGBX] = 0
    /\ id[ev.m][TEXTURE_TYPE_EXTERNAL] = 0
    /\ glProgram = id[ev.m][TEXTURE_TYPE_RGBA]
    /\ glProgram # 0

\* C8 (as stated): after a compile(), use(type) raises for every type whose
\* program did not compile or link, and the current GL program is never a
\* program that did not link.
C8_UseBrokenRaises ==
    /\ (/\ ev.op = "use"
        /\ \A c \in Types : id[ev.m][c] \in DOMAIN glPrograms
        /\ ~glPrograms[id[ev.m][ev.type]]) => ev.raised
    /\ glProgram \in DOMAIN glPrograms => glPrograms[glProgram]

IsSentinel(h) == h = 0 \/ h = ShaderFail

\* C10 (as stated): compile_shader returns the failure sentinel for a source
\* that does not compile, and compile_program returns a sentinel, not a
\* program handle, whenever one of its two shaders did not compile.
C10_FailureSentinel ==
    /\ ev.op = "set_simple" =>
          /\ ~ev.compiled[ev.type] =>
                (IsSentinel(ev.vertex_shader)
                    \/ IsSentinel(ev.fragment_shader))
          /\ (IsSentinel(ev.vertex_shader) \/ IsSentinel(ev.fragment_shader))
                => IsSentinel(ev.result_program[ev.type])
    /\ ev.op = "compile" =>
          \A c \in Types :
              ~ev.compiled[c] => IsSentinel(ev.result_program[c])

\* C15: set_simple(h, c) deletes every program the multiplexer held before
\* the call exactly once and nothing else, and afterwards c is the only
\* registered type, with handle h; every other slot is 0.
C15_SetSimple ==
    [][ev'.op = "set_simple" =>
          LET held == Held(id[ev'.m])
              h    == ev'.result_program[ev'.type]
          IN  /\ \A p \in held :
                    /\ Count(ev'.deleted, <<"program", p>>) = 1
                    /\ p \notin DOMAIN glPrograms'
              /\ Len(ev'.deleted) = Cardinality(held)
              /\ h # 0
              /\ id'[ev'.m][ev'.type] = h
              /\ \A d \in Types \ {ev'.type} : id'[ev'.m][d] = 0]_vars

\* C15 witness: a set_simple() on a multiplexer that held three programs has
\* deleted them and registered one.
C15_Witness ==
    /\ ev.op = "set_simple"
    /\ Len(ev.deleted) = TEXTURE_TYPE_ALL
    /\ Held(id[ev.m]) = {ev.result_program[ev.type]}
    /\ Held(id[ev.m]) \subseteq DOMAIN glPrograms

\* C16: free_resources() deletes every registered program exactly once and
\* nothing else and leaves every slot at 0; a free_resources() directly after
\* a free_resources() deletes nothing and changes nothing; a compile()
\* directly after a free_resources() registers only programs that it created.
C16_FreeResources ==
    /\ [][ev'.op = "free_resources" =>
            LET held == Held(id[ev'.m])
            IN  /\ \A p \in held :
                      /\ Count(ev'.deleted, <<"program", p>>) = 1
                      /\ p \notin DOMAIN glPrograms'
                /\ Len(ev'.deleted) = Cardinality(held)
                /\ \A c \in Types : id'[ev'.m][c] = 0
                /\ (ev.op = "free_resources" /\ ev.m = ev'.m) =>
                      (ev'.deleted = <<>> /\ UNCHANGED pvars)]_vars
    /\ [][(ev.op = "free_resources" /\ ev'.op = "compile"
              /\ ev'.m = ev.m) =>
             /\ ev'.deleted = <<>>
             /\ \A c \in Types :
                   /\ id'[ev'.m][c] \notin DOMAIN glPrograms
                   /\ id'[ev'.m][c] \in DOMAIN glPrograms']_vars

\* C16 witness: a free_resources() has deleted the three programs of a
\* compiled multiplexer.
C16_Witness ==
    /\ ev.op = "free_resources"
    /\ Len(ev.deleted) = TEXTURE_TYPE_ALL
    /\ Held(id[ev.m]) = {}

\* floor(n / d) and ceil(n / d) for d > 0, by their defining inequalities
Floor(n, d) ==
    CHOOSE k \in -(MaxBox + 2) * (MaxScale + 2)..(MaxBox + 2) * (MaxScale + 2) :
        k * d <= n /\ n < (k + 1) * d
Ceil(n, d) ==
    CHOOSE k \in -(MaxBox + 2) * (MaxScale + 2)..(MaxBox + 2) * (MaxScale + 2) :
        (k - 1) * d < n /\ n <= k * d

\* C18 (as stated): a conversion to framebuffer space on a framebuffer with
\* has_nonstandard_transform set signals a failure and returns no box.
C18_NonstandardSignals ==
    (/\ ev.op \in {"framebuffer_box_from_damage_box",
                   "framebuffer_box_from_geometry_box"}
     /\ framebuffer.has_nonstandard_transform) =>
        (ev.raised /\ ~ev.returned)

\* C19 (as stated): the box damage_box_from_geometry_box returns for
\* (x, y, w, h) under scale s contains [x*s, (x+w)*s) x [y*s, (y+h)*s): its
\* left and top edges are <= x*s and y*s, its right and bottom edges are
\* >= (x+w)*s and (y+h)*s.
C19_NeverUnderCovers ==
    ev.op = "damage_box_from_geometry_box" =>
        LET s == framebuffer.scale
            b == ev.box
            r == ev.result
        IN  /\ r.x * ScaleDen <= b.x * s
            /\ r.y * ScaleDen <= b.y * s
            /\ (r.x + r.width) * ScaleDen >= (b.x + b.width) * s
            /\ (r.y + r.height) * ScaleDen >= (b.y + b.height) * s

\* C20: damage_box_from_geometry_box maps (x, y, w, h) under scale s to
\* (floor(x*s), floor(y*s), ceil(w*s), ceil(h*s)); under s = 1.5 it maps
\* (0,0,3,3) to (0,0,5,5) and (1,1,3,3) to a box at (1,1); get_damage_region
\* is that conversion of (0, 0, geometry.width, geometry.height).
C20_DamageBox ==
    LET s == framebuffer.scale
        b == ev.box
        r == ev.result
        g == framebuffer.geometry
    IN  /\ ev.op = "damage_box_from_geometry_box" =>
              /\ r = Box(Floor(b.x * s, ScaleDen), Floor(b.y * s, ScaleDen),
                         Ceil(b.width * s, ScaleDen),
                         Ceil(b.height * s, ScaleDen))
              /\ (2 * s = 3 * ScaleDen /\ b = Box(0, 0, 3, 3)) =>
                    r = Box(0, 0, 5, 5)
              /\ (2 * s = 3 * ScaleDen /\ b = Box(1, 1, 3, 3)) =>
                    (r.x = 1 /\ r.y = 1)
        /\ ev.op = "get_damage_region" =>
              /\ b = Box(0, 0, g.width, g.height)
              /\ r = Box(0, 0, Ceil(g.width * s, ScaleDen),
                         Ceil(g.height * s, ScaleDen))

\* C20 witness: (1,1,3,3) has been converted under scale 1.5, to (1,1,5,5).
C20_Witness ==
    /\ ev.op = "damage_box_from_geometry_box"
    /\ 2 * framebuffer.scale = 3 * ScaleDen
    /\ ev.box = Box(1, 1, 3, 3)
    /\ ev.result = Box(1, 1, 5, 5)

\* C12: deactivate() passes every enabled attribute location to
\* glDisableVertexAttribArray and every location with a divisor other than 0
\* to glVertexAttribDivisor(loc, 0); after it no attribute array is enabled,
\* every divisor is 0, active_attrs and active_attrs_divisors are empty and
\* the current program is 0.
C12_Deactivate ==
    [][ev'.op = "deactivate" =>
          /\ glEnabledAttribs \subseteq ev'.disabled
          /\ {l \in AttribLocs : glDivisors[l] # 0} \subseteq ev'.reset
          /\ glEnabledAttribs' = {}
          /\ \A l \in AttribLocs : glDivisors'[l] = 0
          /\ active_attrs'[ev'.m] = {}
          /\ active_attrs_divisors'[ev'.m] = {}
          /\ glProgram' = 0]_vars

\* C12 witness: a deactivate() has disabled two attribute arrays and reset a
\* divisor, and left nothing enabled and no program current.
C12_Witness ==
    /\ ev.op = "deactivate"
    /\ Cardinality(ev.disabled \cap AttribLocs) = 2
    /\ ev.reset \cap AttribLocs # {}
    /\ glEnabledAttribs = {}
    /\ active_attrs[ev.m] = {}
    /\ active_attrs_divisors[ev.m] = {}
    /\ glProgram = 0

\* the corners of the quad of a vertex array <<x, y, x, y, x, y, x, y>>
Corners(v) == {<<v[2 * i - 1], v[2 * i]>> : i \in 1..(Len(v) \div 2)}

\* the corners of a rectangle
BoxCorners(b) == {b.x, b.x + b.width} \X {b.y, b.y + b.height}

\* C11 (as stated): the quad the framebuffer overload draws is geometry
\* translated by (framebuffer.geometry.x, framebuffer.geometry.y), and its
\* transform is the framebuffer's orthographic projection.
C11_OutputRelativeQuad ==
    (ev.op = "glDrawArrays" /\ frame.via = "framebuffer") =>
        /\ Corners(frame.vertexData) =
              BoxCorners(Box(frame.geometry.x + frame.origin[1],
                             frame.geometry.y + frame.origin[2],
                             frame.geometry.width, frame.geometry.height))
        /\ frame.transform = "framebuffer.get_orthographic_projection()"

\* a drawing function has returned after its deactivate()
Drawn == pc = "idle" /\ trace # <<>> /\ trace[Len(trace)] = "deactivate"

\* C13: whenever no drawing function is running, no attribute array is
\* enabled, every divisor is 0, no program is current and the tracking sets
\* of both multiplexers are empty; a use() succeeds only when no drawing
\* function is running, a running drawing function has made one use() and no
\* deactivate(), and one that has returned has made one use() and one
\* deactivate(), its last call.
C13_DrawsCleanUp ==
    /\ [](pc = "idle" =>
            /\ glEnabledAttribs = {}
            /\ \A l \in AttribLocs : glDivisors[l] = 0
            /\ glProgram = 0
            /\ \A m \in Programs :
                  active_attrs[m] = {} /\ active_attrs_divisors[m] = {})
    /\ [][(ev'.op = "use" /\ ~ev'.raised) => pc = "idle"]_vars
    /\ []((pc # "idle" /\ Head(trace) = "use") =>
            (Count(trace, "use") = 1 /\ Count(trace, "deactivate") = 0))
    /\ [](Drawn =>
            /\ Head(trace) = "use"
            /\ Count(trace, "use") = 1
            /\ Count(trace, "deactivate") = 1)

\* C13 witness: a drawing function that enabled two attribute arrays has
\* returned, and nothing is left enabled or current.
C13_Witness ==
    /\ Drawn
    /\ ev.op = "deactivate"
    /\ Cardinality(ev.disabled \cap AttribLocs) = 2
    /\ glEnabledAttribs = {}
    /\ glProgram = 0

\* C14 (as stated): render_transformed_texture on a view of type c makes
\* exactly one draw call, glDrawArrays(GL_TRIANGLE_FAN, 0, 4), and at that
\* call the program registered for c is current, blending is enabled with
\* (GL_ONE, GL_ONE_MINUS_SRC_ALPHA), the view's texture is bound, the two
\* arrays are enabled, and texture, attributes and uniforms have been set
\* after the use().
C14_DrawCall ==
    /\ (ev.op = "glDrawArrays"
            /\ frame.fn = "render_transformed_texture") =>
          LET d == ev.drawn[1]
          IN  /\ d.mode = "GL_TRIANGLE_FAN" /\ d.first = 0 /\ d.count = 4
              /\ d.program = id["program"][frame.tex.type]
              /\ d.blend = [enabled |-> TRUE, sfactor |-> "GL_ONE",
                            dfactor |-> "GL_ONE_MINUS_SRC_ALPHA"]
              /\ d.texture = frame.tex.tex_id
              /\ {d.arrays[l] : l \in DOMAIN d.arrays} =
                    {frame.vertexData, frame.coordData}
              /\ Head(trace) = "use"
              /\ \A c \in {"set_active_texture", "attrib_pointer position",
                           "attrib_pointer uvPosition",
                           "uniformMatrix4f MVP", "uniform4f color"} :
                    Count(trace, c) = 1
              /\ Count(trace, "glDrawArrays") = 1
    /\ Drawn => Count(trace, "glDrawArrays") = 1

\* C17: after render_end() the framebuffer binding is 0, the scissor test is
\* disabled and no renderer session is open; init() and fini() make one
\* render_begin(), have the session open until their last call, and make
\* one render_end(), their last call.
C17_RenderEnd ==
    /\ ev.op = "render_end" =>
          (boundFb = 0 /\ ~glScissorTest /\ ~rendering)
    /\ frame.fn \in {"init", "fini"} =>
          /\ rendering
          /\ Head(trace) = "render_begin"
          /\ Count(trace, "render_begin") = 1
          /\ Count(trace, "render_end") = 0
    /\ (pc = "idle" /\ Len(trace) > 1 /\ Head(trace) = "render_begin") =>
          /\ ~rendering
          /\ Count(trace, "render_begin") = 1
          /\ Count(trace, "render_end") = 1
          /\ trace[Len(trace)] = "render_end"

\* C17 witness: a render_end() has closed a render pass in which something
\* was drawn.
C17_Witness ==
    /\ ev.op = "render_end"
    /\ trace = <<"render_end">>
    /\ glBlend.enabled
    /\ boundFb = 0 /\ ~glScissorTest /\ ~rendering

\* the calls that pass a uniform or attribute location to the GL
Setters == {"attrib_pointer", "attrib_divisor", "uniform",
            "set_active_texture"}

\* the cache a setter call looks its names up in
CacheOf(op, a, u) == IF op \in {"attrib_pointer", "attrib_divisor"} THEN a ELSE u

\* what the GL answers for a name of the kind the setter sets
Resolve(op, program, name) ==
    IF op \in {"attrib_pointer", "attrib_divisor"}
    THEN glGetAttribLocation(program, name)
    ELSE glGetUniformLocation(program, name)

\* C25: a setter queries the GL for a name only when the cache of the active
\* type has no entry for it, and then stores the answer, "not found"
\* included; with an entry it passes the entry; while the registered
\* programs do not change no entry is removed or changed.  So the location
\* of a (type, name) is queried at most once per kind.
C25_QueriedOnce ==
    [][/\ ev'.op \in Setters =>
            LET m == ev'.m
                c == active_program_idx[m]
                before == CacheOf(ev'.op, attribs, uniforms)[m][c]
                after  == CacheOf(ev'.op, attribs', uniforms')[m][c]
            IN  /\ \A i \in 1..Len(ev'.names) :
                      /\ ev'.names[i] \in DOMAIN after
                      /\ after[ev'.names[i]] = ev'.locs[i]
                      /\ ev'.names[i] \in DOMAIN before =>
                            ev'.locs[i] = before[ev'.names[i]]
                /\ \A q \in 1..Len(ev'.queries) :
                      /\ ev'.queries[q][3] \notin DOMAIN before
                      /\ \A r \in 1..Len(ev'.queries) :
                            ev'.queries[r][3] = ev'.queries[q][3] => r = q
       /\ id' = id =>
            \A m \in Programs, c \in Types :
                /\ \A n \in DOMAIN attribs[m][c] :
                      n \in DOMAIN attribs'[m][c]
                          /\ attribs'[m][c][n] = attribs[m][c][n]
                /\ \A n \in DOMAIN uniforms[m][c] :
                      n \in DOMAIN uniforms'[m][c]
                          /\ uniforms'[m][c][n] = uniforms[m][c][n]]_vars

\* C25 witness: an attribute setter has passed a cached "not found" without
\* asking the GL again.
C25_Witness ==
    /\ ev.op = "attrib_pointer"
    /\ ev.queries = <<>>
    /\ ev.loc = NotFound

C27_NoStaleLocation ==
    (ev.op \in Setters
        /\ id[ev.m][active_program_idx[ev.m]] # 0
        /\ glProgram = id[ev.m][active_program_idx[ev.m]]) =>
        \A i \in 1..Len(ev.names) :
            ev.locs[i] =
                Resolve(ev.op, id[ev.m][active_program_idx[ev.m]],
                        ev.names[i])

\* box lies in the rectangle (0, 0, width, height)
Within(box, width, height) ==
    /\ box.x >= 0 /\ box.y >= 0 /\ box.width >= 0 /\ box.height >= 0
    /\ box.x + box.width <= width
    /\ box.y + box.height <= height

\* C21 (as stated): with wl_transform normal and scale 1,
\* framebuffer_box_from_geometry_box(box) is box for every box within the
\* viewport, whatever the other fields of the framebuffer are.
C21_RoundTrip ==
    (ev.op = "framebuffer_box_from_geometry_box"
        /\ framebuffer.wl_transform = WL_OUTPUT_TRANSFORM_NORMAL
        /\ framebuffer.scale = ScaleDen
        /\ Within(ev.box, framebuffer.viewport_width,
                  framebuffer.viewport_height)) =>
        ev.result = ev.box

\* C28: framebuffer_box_from_damage_box on a framebuffer without
\* has_nonstandard_transform, for a box within the viewport as it is before
\* the rotation (sides swapped for the transforms 90, 270, flipped 90 and
\* flipped 270): the result has the box's width and height, swapped for
\* exactly those transforms, hence the box's area, and lies within (0, 0,
\* viewport_width, viewport_height).
C28_FramebufferBox ==
    LET odd == framebuffer.wl_transform
                  \in {WL_OUTPUT_TRANSFORM_90, WL_OUTPUT_TRANSFORM_270,
                       WL_OUTPUT_TRANSFORM_FLIPPED_90,
                       WL_OUTPUT_TRANSFORM_FLIPPED_270}
        w == IF odd THEN framebuffer.viewport_height
             ELSE framebuffer.viewport_width
        h == IF odd THEN framebuffer.viewport_width
             ELSE framebuffer.viewport_height
        b == ev.box
        r == ev.result
    IN  (ev.op = "framebuffer_box_from_damage_box"
            /\ ~framebuffer.has_nonstandard_transform
            /\ Within(b, w, h)) =>
            /\ ev.returned
            /\ r.width = (IF odd THEN b.height ELSE b.width)
            /\ r.height = (IF odd THEN b.width ELSE b.height)
            /\ r.width * r.height = b.width * b.height
            /\ Within(r, framebuffer.viewport_width,
                      framebuffer.viewport_height)

\* C28 witness: a box of unequal sides at the far corner of the viewport as
\* it is before the rotation has been converted under the transform 270
\* with a viewport that is not square.
C28_Witness ==
    /\ ev.op = "framebuffer_box_from_damage_box"
    /\ ~framebuffer.has_nonstandard_transform
    /\ framebuffer.wl_transform = WL_OUTPUT_TRANSFORM_270
    /\ framebuffer.viewport_width # framebuffer.viewport_height
    /\ ev.box.width > ev.box.height /\ ev.box.height > 0
    /\ ev.box.x + ev.box.width = framebuffer.viewport_height
    /\ ev.result.width = ev.box.height /\ ev.result.height = ev.box.width
    /\ ev.result.y = 0

\* C30: scissor(box) passes (box.x, viewport_height - box.y - box.height,
\* box.width, box.height) to glScissor; for a box within the viewport that
\* rectangle is within the viewport, and the same flip of it is box.
C30_Scissor ==
    LET b  == ev.box
        r  == ev.result
        vh == framebuffer.viewport_height
    IN  ev.op = "scissor" =>
            /\ glScissorTest
            /\ r = Box(b.x, vh - b.y - b.height, b.width, b.height)
            /\ Within(b, framebuffer.viewport_width, vh) =>
                  Within(r, framebuffer.viewport_width, vh)
            /\ Box(r.x, vh - r.y - r.height, r.width, r.height) = b

\* C30 witness: a box within the viewport that does not touch its bottom
\* has been passed to scissor(), and the rectangle of glScissor is at
\* another y.
C30_Witness ==
    /\ ev.op = "scissor"
    /\ Within(ev.box, framebuffer.viewport_width, framebuffer.viewport_height)
    /\ ev.box.width > 0 /\ ev.box.height > 0 /\ ev.box.y > 0
    /\ ev.result.y # ev.box.y
    /\ ev.result.y + ev.result.height < framebuffer.viewport_height

\* C24: in every state a target whose fb or tex is unset has viewport_width
\* = viewport_height = 0 and no two targets hold the same framebuffer or
\* the same texture other than 0; every glDelete* call of a release() or a
\* move assignment names an object that is alive, and no call names the
\* object of another call.
C24_TargetInvariant ==
    /\ [](\A t \in Targets :
            (targets[t].fb = Unset \/ targets[t].tex = Unset) =>
                (targets[t].viewport_width = 0
                    /\ targets[t].viewport_height = 0))
    /\ [](\A t \in Targets, u \in Targets :
            t # u =>
                /\ targets[t].fb = targets[u].fb =>
                      targets[t].fb \in {0, Unset}
                /\ targets[t].tex = targets[u].tex =>
                      targets[t].tex \in {0, Unset})
    /\ [][\A i \in 1..Len(ev'.deleted) :
            /\ ev'.deleted[i][1] = "fb" =>
                  ev'.deleted[i][2] \in glFramebuffers
            /\ ev'.deleted[i][1] = "tex" =>
                  ev'.deleted[i][2] \in DOMAIN glTextures
            /\ \A j \in 1..Len(ev'.deleted) :
                  ev'.deleted[j] = ev'.deleted[i] => j = i]_vars

\* C24 witness: a target has been move-constructed from one that held a
\* framebuffer and a texture of a size, and the source is left unset with
\* size 0 while the other target holds objects of its own.
C24_Witness ==
    /\ ev.op = "move_construct"
    /\ targets[ev.t].fb \notin {0, Unset}
    /\ targets[ev.t].tex \notin {0, Unset}
    /\ targets[ev.t].viewport_width > 0
    /\ targets[ev.src] = framebuffer_base_t
    /\ Cardinality(glFramebuffers) = 2

\* the rotation about Z by a multiple of 90 degrees, counter-clockwise for a
\* positive angle
RotationZ(degrees) ==
    CASE degrees = 0    -> << <<1, 0, 0, 0>>, <<0, 1, 0, 0>>,
                              <<0, 0, 1, 0>>, <<0, 0, 0, 1>> >>
      [] degrees = 90   -> << <<0, -1, 0, 0>>, <<1, 0, 0, 0>>,
                              <<0, 0, 1, 0>>, <<0, 0, 0, 1>> >>
      [] degrees = 180  -> << <<-1, 0, 0, 0>>, <<0, -1, 0, 0>>,
                              <<0, 0, 1, 0>>, <<0, 0, 0, 1>> >>
      [] degrees = -90  -> << <<0, 1, 0, 0>>, <<-1, 0, 0, 0>>,
                              <<0, 0, 1, 0>>, <<0, 0, 0, 1>> >>

\* the mirror that scales X by -1 and leaves Y, Z and W
MirrorX(flipped) ==
    IF flipped
    THEN << <<-1, 0, 0, 0>>, <<0, 1, 0, 0>>, <<0, 0, 1, 0>>, <<0, 0, 0, 1>> >>
    ELSE RotationZ(0)

\* the vectors with coordinates 0 and 1
Vectors == [1..4 -> {0, 1}]

\* C22 (as stated): get_output_matrix_from_transform(t) maps every vector
\* as the mirror M(t >= 4) followed by the rotation R(t mod 4) does, R being
\* the rotation by 0, -90, 180 and +90 degrees for 0, 1, 2 and 3 and M
\* scaling X by -1 and leaving Y, Z and W; no flipped value has the matrix
\* of an unflipped value.
C22_OutputMatrix ==
    ev.op = "get_output_matrix_from_transform" =>
        LET t == ev.transform
            R == RotationZ(CASE t % 4 = 0 -> 0 [] t % 4 = 1 -> -90
                             [] t % 4 = 2 -> 180 [] t % 4 = 3 -> 90)
        IN  /\ \A v \in Vectors :
                  MatVec(ev.matrix, v) = MatVec(R, MatVec(MirrorX(t >= 4), v))
            /\ t >= 4 =>
                  \A u \in 0..3 :
                      ev.matrix # get_output_matrix_from_transform(u)

\* C23: the texture_t built from the attributes of a wlr texture has type
\* EXTERNAL iff the target is not GL_TEXTURE_2D, otherwise RGBA iff
\* has_alpha and RGBX iff not; invert_y is the negation of inverted_y;
\* target and tex_id are those of the attributes.
C23_TextureView ==
    ev.op = "texture_t" =>
        LET a == ev.attribs
            v == ev.texture
        IN  /\ (v.type = TEXTURE_TYPE_EXTERNAL) <=> (a.target # "GL_TEXTURE_2D")
            /\ a.target = "GL_TEXTURE_2D" =>
                  /\ (v.type = TEXTURE_TYPE_RGBA) <=> a.has_alpha
                  /\ (v.type = TEXTURE_TYPE_RGBX) <=> ~a.has_alpha
            /\ v.invert_y = ~a.inverted_y
            /\ v.target = a.target
            /\ v.tex_id = a.tex

\* C23 witness: an external texture that declares alpha and is inverted has
\* been wrapped.
C23_Witness ==
    /\ ev.op = "texture_t"
    /\ ev.attribs.target = "GL_TEXTURE_EXTERNAL_OES"
    /\ ev.attribs.has_alpha /\ ev.attribs.inverted_y
    /\ ev.texture.type = TEXTURE_TYPE_EXTERNAL
    /\ ~ev.texture.invert_y

\* the Y-flipping orthographic projection of the rectangle g applied to the
\* vector v, times g.width * g.height: x to 2 (x - g.x) / g.width - 1, y to
\* 1 - 2 (y - g.y) / g.height, z to -z
Ortho(g, v) ==
    << (2 * (v[1] - g.x * v[4]) - g.width * v[4]) * g.height,
       (g.height * v[4] - 2 * (v[2] - g.y * v[4])) * g.width,
       -v[3] * g.width * g.height,
       v[4] * g.width * g.height >>

\* the vector v with every coordinate multiplied by k
Times(v, k) == [i \in 1..4 |-> v[i] * k]

\* the points the projections are compared on: the corners of the output
\* rectangle and the origin
Points(g) ==
    {<<x, y, 0, 1>> : x \in {0, g.x, g.x + g.width},
                      y \in {0, g.y, g.y + g.height}}

\* C29 (as stated): get_orthographic_projection() maps a point as the
\* framebuffer's transform followed by the Y-flipping orthographic
\* projection does.
C29_TransformFirst ==
    ev.op = "get_orthographic_projection" =>
        LET g == framebuffer.geometry
        IN  \A v \in Points(g) :
                Times(MatVec(ev.matrix, v), g.width * g.height) =
                    Times(Ortho(g, MatVec(framebuffer.transform, v)), ev.den)

\* C29 (amended): get_orthographic_projection() maps a point as the
\* Y-flipping orthographic projection followed by the framebuffer's
\* transform does; with the identity transform the corner (geometry.x,
\* geometry.y) goes to (-1, +1) and (geometry.x + width, geometry.y +
\* height) to (+1, -1).
C29_OrthoFirst ==
    ev.op = "get_orthographic_projection" =>
        LET g == framebuffer.geometry
            d == ev.den
        IN  /\ d # 0
            /\ \A v \in Points(g) :
                  Times(MatVec(ev.matrix, v), g.width * g.height) =
                      Times(MatVec(framebuffer.transform, Ortho(g, v)), d)
            /\ framebuffer.transform = mat4(1) =>
                  /\ MatVec(ev.matrix, <<g.x, g.y, 0, 1>>) = <<-d, d, 0, d>>
                  /\ MatVec(ev.matrix,
                            <<g.x + g.width, g.y + g.height, 0, 1>>)
                        = <<d, -d, 0, d>>

\* C29 witness: the projection has been taken of a framebuffer rotated by
\* 90 degrees whose rectangle is not square and not at the origin.
C29_Witness ==
    /\ ev.op = "get_orthographic_projection"
    /\ framebuffer.wl_transform = WL_OUTPUT_TRANSFORM_90
    /\ framebuffer.geometry.x > 0
    /\ framebuffer.geometry.width # framebuffer.geometry.height
    /\ MatVec(ev.matrix, <<framebuffer.geometry.x, framebuffer.geometry.y,
                           0, 1>>) = <<ev.den, ev.den, 0, ev.den>>

\* the four vertices of an array of positions, each with the texture
\* coordinate the array of coordinates gives it
Paired(vertices, coords) ==
    {<< <<vertices[2 * i - 1], vertices[2 * i]>>,
        <<coords[2 * i - 1], coords[2 * i]>> >> : i \in 1..4}

\* the arrays a draw call reads through the attributes pointed at the array
\* named kind
Submitted(drawn, kind) ==
    {drawn.arrays[l] : l \in {k \in DOMAIN drawn.arrays :
                                  glAttribPointers[k] = kind}}

\* C31 (as stated): the draw call of render_transformed_texture(tex, g,
\* texg, model, color, bits) with TEXTURE_USE_TEX_GEOMETRY in bits and texg
\* = {0, 0, 1, 1} reads the vertices and, paired with them, the texture
\* coordinates that the same call without TEXTURE_USE_TEX_GEOMETRY builds.
C31_UnitSubRectangle ==
    (ev.op = "glDrawArrays"
        /\ frame.fn = "render_transformed_texture"
        /\ frame.via = "gl_geometry"
        /\ HasBit(frame.bits, TEXTURE_USE_TEX_GEOMETRY)
        /\ frame.texg = GlGeometry(0, 0, 1, 1)) =>
        LET cleared == ClearBit(frame.bits, TEXTURE_USE_TEX_GEOMETRY)
        IN  \A g \in GlGeometries :
                frame.vertexData = vertexData(g, frame.bits) =>
                    \A v \in Submitted(ev.drawn[1], "vertexData"),
                       c \in Submitted(ev.drawn[1], "coordData") :
                        Paired(v, c) =
                            Paired(vertexData(g, cleared),
                                   coordData(frame.texg, cleared))


\* C32 (as stated): a GL_CALL whose gl_call() finds exactly one error flag
\* set writes one line, which names that error as gl_error_string does, and
\* leaves no flag set; one whose gl_call() finds no flag set writes nothing.
C32_GlCall ==
    ev.op = "GL_CALL" =>
        /\ ev.pending = {} => ev.logged = <<>>
        /\ \A err \in GlErrors :
              ev.pending = {err} =>
                  /\ ev.logged = <<LOGE(ev.name, gl_error_string(err))>>
                  /\ glErrors = {}

====
